---- MODULE Spec2Model ----
(***************************************************************************)
(* RepoSwarm analysis pipeline: the AnalysisOrchestrator job state machine *)
(* (services/analysis-orchestrator.ts), the CacheService key/expiry logic  *)
(* (services/cache-service.ts), RepoManager.cloneRepository/cleanup        *)
(* (services/repo-manager.ts) and the PromptEngine task catalogue          *)
(* (services/prompt-engine.ts, types/prompts.ts).                          *)
(*                                                                         *)
(* One action is one run of a job between two suspension points (awaits on *)
(* an external call).  Optional values are sequences of length 0 or 1.     *)
(* Progress is stored multiplied by ProgressScale, so that the fractional  *)
(* per-category step 50 / categories.length stays exact.                   *)
(***************************************************************************)
EXTENDS Integers, Sequences, FiniteSets, TLC

\* ------------------------------------------------------------------ bounds
NumJobs == 2
MaxFaults == 1
MaxClock == 7
MaxPrompts == 3

\* --------------------------------------------------------------- constants
CACHE_TTL_DAYS == 7

Null == <<>>
Some(v) == <<v>>
IsSome(o) == o # <<>>
Val(o) == o[1]

Jobs == 1..NumJobs

\* ------------------------------------------------------- task catalogue
categories ==
  <<"architecture", "security", "performance", "documentation", "testing", "maintainability">>

ProgressScale == Len(categories)
Pct(p) == p * ProgressScale

Prompt(id, targetType, category, order, contextRequired) ==
  [id |-> id, targetType |-> targetType, category |-> category, order |-> order,
   contextRequired |-> contextRequired]

DEFAULT_PROMPTS ==
  [c \in {categories[i] : i \in 1..Len(categories)} |->
     CASE c = "architecture" ->
            << Prompt("arch-overview", "all", "architecture", 1, {}),
               Prompt("arch-components", "all", "architecture", 2, {"arch-overview"}),
               Prompt("arch-dependencies", "all", "architecture", 3, {"arch-components"}) >>
       [] c = "security" ->
            << Prompt("security-secrets", "all", "security", 1, {}),
               Prompt("security-vulnerabilities", "all", "security", 2, {}),
               Prompt("security-dependencies", "all", "security", 3, {}) >>
       [] c = "performance" -> << Prompt("perf-analysis", "all", "performance", 1, {}) >>
       [] c = "documentation" -> << Prompt("docs-analysis", "all", "documentation", 1, {}) >>
       [] c = "testing" -> << Prompt("test-analysis", "all", "testing", 1, {}) >>
       [] c = "maintainability" ->
            << Prompt("maintain-analysis", "all", "maintainability", 1, {"arch-overview"}) >>]

TYPE_SPECIFIC_PROMPTS ==
  [t \in {"backend", "frontend"} |->
     [c \in {"architecture"} |->
        IF t = "backend"
        THEN << Prompt("backend-api-design", "backend", "architecture", 4, {"arch-overview"}) >>
        ELSE << Prompt("frontend-component-analysis", "frontend", "architecture", 4,
                       {"arch-overview"}) >>]]

ShippedCatalogue == [defaults |-> DEFAULT_PROMPTS, typeSpecific |-> TYPE_SPECIFIC_PROMPTS]

\* catalogues of two tasks, for the same categories: the order hints of the first
\* contradict its dependency, the dependency of the second points to a later
\* category, the third is consistent
NoTypeSpecific == [t \in {} |-> [c \in {} |-> <<>>]]

HintsSwappedCatalogue ==
  [defaults |->
     [c \in {categories[i] : i \in 1..Len(categories)} |->
        IF c = "architecture"
        THEN << Prompt("arch-overview", "all", "architecture", 2, {}),
                Prompt("arch-components", "all", "architecture", 1, {"arch-overview"}) >>
        ELSE <<>>],
   typeSpecific |-> NoTypeSpecific]

LaterCategoryCatalogue ==
  [defaults |->
     [c \in {categories[i] : i \in 1..Len(categories)} |->
        IF c = "architecture"
        THEN << Prompt("arch-overview", "all", "architecture", 1, {"perf-analysis"}) >>
        ELSE IF c = "performance"
        THEN << Prompt("perf-analysis", "all", "performance", 1, {}) >>
        ELSE <<>>],
   typeSpecific |-> NoTypeSpecific]

ConsistentCatalogue ==
  [defaults |->
     [c \in {categories[i] : i \in 1..Len(categories)} |->
        IF c = "architecture"
        THEN << Prompt("arch-components", "all", "architecture", 2, {"arch-overview"}),
                Prompt("arch-overview", "all", "architecture", 1, {}) >>
        ELSE <<>>],
   typeSpecific |-> NoTypeSpecific]

Catalogues ==
  {ShippedCatalogue, HintsSwappedCatalogue, LaterCategoryCatalogue, ConsistentCatalogue}

RepositoryType ==
  {"backend", "frontend", "mobile", "infra-as-code", "library", "monorepo", "unknown"}

\* ------------------------------------------------------------ PromptEngine
RECURSIVE SelectSeq2(_, _)
\* defaultPrompts filtered by targetType, in array order (getPrompts, first loop)
SelectSeq2(seq, repoType) ==
  IF seq = <<>> THEN <<>>
  ELSE LET rest == SelectSeq2(Tail(seq), repoType) IN
       IF Head(seq).targetType = "all" \/ Head(seq).targetType = repoType
       THEN <<Head(seq)>> \o rest ELSE rest

\* a Map.set that keeps the first prompt set for an id
MapSetKeepsFirst(seq, p) ==
  IF \E i \in 1..Len(seq) : seq[i].id = p.id THEN seq ELSE Append(seq, p)

\* Map.set(prompt.id, prompt): an existing id keeps its place, a new id goes last
MapSet(seq, p) ==
  IF \E i \in 1..Len(seq) : seq[i].id = p.id
  THEN [i \in 1..Len(seq) |-> IF seq[i].id = p.id THEN p ELSE seq[i]]
  ELSE Append(seq, p)

RECURSIVE MapSetAll(_, _)
MapSetAll(seq, ps) ==
  IF ps = <<>> THEN seq ELSE MapSetAll(MapSet(seq, Head(ps)), Tail(ps))

RECURSIVE InsertByOrderDesc(_, _)
\* a comparator with its operands swapped, (a, b) => b.order - a.order
InsertByOrderDesc(sorted, p) ==
  IF sorted = <<>> THEN <<p>>
  ELSE IF Head(sorted).order >= p.order
       THEN <<Head(sorted)>> \o InsertByOrderDesc(Tail(sorted), p)
       ELSE <<p>> \o sorted

RECURSIVE InsertByOrder(_, _)
\* place p after every element whose order is <= p.order (Array.sort is stable)
InsertByOrder(sorted, p) ==
  IF sorted = <<>> THEN <<p>>
  ELSE IF Head(sorted).order <= p.order
       THEN <<Head(sorted)>> \o InsertByOrder(Tail(sorted), p)
       ELSE <<p>> \o sorted

RECURSIVE SortByOrder(_)
SortByOrder(seq) ==
  IF seq = <<>> THEN <<>>
  ELSE InsertByOrder(SortByOrder(SubSeq(seq, 1, Len(seq) - 1)), seq[Len(seq)])

promptCacheGet(cat, scope, category) ==
  IF scope = "default"
  THEN IF category \in DOMAIN cat.defaults THEN cat.defaults[category] ELSE <<>>
  ELSE IF scope \in DOMAIN cat.typeSpecific /\ category \in DOMAIN cat.typeSpecific[scope]
       THEN cat.typeSpecific[scope][category] ELSE <<>>

getPrompts(cat, repoType, category) ==
  LET defaultPrompts == promptCacheGet(cat, "default", category)
      typeSpecificPrompts == promptCacheGet(cat, repoType, category)
      promptMap == MapSetAll(MapSetAll(<<>>, SelectSeq2(defaultPrompts, repoType)),
                             typeSpecificPrompts)
  IN SortByOrder(promptMap)

\* ------------------------------------------- PromptEngine: dependency resolver
\* new Map(prompts.map((p) => [p.id, p])): the last prompt given for an id
promptMapOf(prompts) ==
  [id \in {prompts[i].id : i \in DOMAIN prompts} |->
     prompts[CHOOSE i \in DOMAIN prompts :
               /\ prompts[i].id = id
               /\ \A k \in DOMAIN prompts : prompts[k].id = id => k <= i]]

\* a resolver that never takes a task for resolved
DoneNever(pending, promptId) == FALSE

\* `if (!pending.has(promptId)) return`
Done(pending, promptId) == promptId \notin pending

\* resolved.unshift(prompt)
EmitFirst(resolved, prompt) == <<prompt>> \o resolved

\* resolved.push(prompt)
Emit(resolved, prompt) == Append(resolved, prompt)

RECURSIVE resolve(_, _, _)
RECURSIVE resolveEach(_, _, _)

\* a loop over the dependencies that gives up at the first one that is on the
\* way to being resolved, whatever follows it in contextRequired
resolveEachUntilCycle(st, promptMap, depIds) ==
  IF depIds = <<>> THEN st
  ELSE IF Head(depIds) \in st.visited /\ Head(depIds) \in st.pending
  THEN resolve(st, promptMap, Head(depIds))
  ELSE resolveEach(resolve(st, promptMap, Head(depIds)), promptMap, Tail(depIds))

\* the closure `resolve` of resolvePromptDependencies; st holds resolved, pending
\* and the visited set of the current root (one Set object shared by the recursive
\* calls), and the ids a circular dependency was logged for.  In a call of the
\* resolver contextRequired is the array of the source, a sequence of ids.
resolve(st, promptMap, promptId) ==
  IF Done(st.pending, promptId) THEN st
  ELSE IF promptId \in st.visited THEN [st EXCEPT !.warned = @ \cup {promptId}]
  ELSE IF promptId \notin DOMAIN promptMap THEN st
  ELSE LET prompt == promptMap[promptId]
           Known(depId) == depId \in DOMAIN promptMap
           after == resolveEach([st EXCEPT !.visited = @ \cup {promptId}], promptMap,
                                SelectSeq(prompt.contextRequired, Known))
       IN [after EXCEPT !.pending = @ \ {promptId}, !.resolved = Emit(@, prompt)]

\* `for (const depId of prompt.contextRequired) resolve(depId, visited)`
resolveEach(st, promptMap, depIds) ==
  IF depIds = <<>> THEN st
  ELSE resolveEach(resolve(st, promptMap, Head(depIds)), promptMap, Tail(depIds))

RECURSIVE resolveRoots(_, _, _)
\* `for (const prompt of prompts) resolve(prompt.id)`, each with a new visited set
resolveRoots(st, promptMap, prompts) ==
  IF prompts = <<>> THEN st
  ELSE resolveRoots(resolve([st EXCEPT !.visited = {}], promptMap, Head(prompts).id),
                    promptMap, Tail(prompts))

\* the list returned, and the ids a circular dependency was logged for
resolvePromptDependencies(prompts) ==
  LET st == resolveRoots([resolved |-> <<>>,
                          pending |-> {prompts[i].id : i \in DOMAIN prompts},
                          visited |-> {}, warned |-> {}],
                         promptMapOf(prompts), prompts)
  IN [resolved |-> st.resolved, warned |-> st.warned]

\* ------------------------------------------------- PromptEngine: rendering
\* JavaScript values of a PromptContext, and text: a string is the sequence of its
\* parts, the empty sequence being the empty string
NullValue == [kind |-> "null"]
Str(text) == [kind |-> "string", text |-> text]
Arr(items) == [kind |-> "array", items |-> items]
Obj(entries) == [kind |-> "object", entries |-> entries]
Entry(key, value) == [key |-> key, value |-> value]

Text(string) == IF string = "" THEN <<>> ELSE <<string>>

RECURSIVE Join(_, _)
\* Array.join(separator) of an array of texts
Join(texts, separator) ==
  IF texts = <<>> THEN <<>>
  ELSE IF Len(texts) = 1 THEN texts[1]
  ELSE texts[1] \o <<separator>> \o Join(Tail(texts), separator)

\* String(value)
StringOf(value) ==
  CASE value.kind = "string" -> Text(value.text)
    [] value.kind = "array" -> Join([i \in DOMAIN value.items |-> Text(value.items[i])], ",")
    [] value.kind = "object" -> <<"[object Object]">>

\* Object.entries of an object or of an array (its indices as keys)
EntriesOf(value) ==
  IF value.kind = "array"
  THEN [i \in DOMAIN value.items |-> Entry("index", value.items[i])]
  ELSE value.entries

formatObjectAsMarkdown(obj) ==
  LET entries == EntriesOf(obj) IN
  Join([i \in DOMAIN entries |->
          <<"### ", entries[i].key, "fence">> \o Text(entries[i].value) \o <<"fence">>],
       "blank line")

formatValue(value, type) ==
  IF value.kind = "null" THEN <<"[Not available]">>
  ELSE IF type = "array" /\ value.kind = "array"
  THEN Join([i \in DOMAIN value.items |-> Text(value.items[i])], ", ")
  ELSE IF type = "object" /\ value.kind \in {"object", "array"}
  THEN formatObjectAsMarkdown(value)
  ELSE StringOf(value)

\* the files of the model, in the order fileContents lists them, and the file
\* groups of the extract methods each of them falls into by its name or path
PathOrder == <<"README.md", "openapi.yaml", "package.json", "src/app.test.ts">>

FileGroups ==
  {"packageFiles", "lockFiles", "testFiles", "routeFiles", "componentFiles", "stateFiles",
   "docs", "codeComments", "testConfig"}

GroupsOf(path) ==
  CASE path = "README.md" -> {"docs"}
    [] path = "package.json" -> {"packageFiles"}
    [] path = "src/app.test.ts" -> {"testFiles", "codeComments"}
    [] OTHER -> {}

\* extractPackageFiles, extractLockFiles, ...: the entries of fileContents in a group
extractFiles(group, context) ==
  LET InGroup(entry) == group \in GroupsOf(entry.key) IN
  Obj(SelectSeq(context.fileContents.entries, InGroup))

\* fileContents[path] || ..., over the paths given: the first content, or the empty string
FirstContent(context, paths) ==
  LET Named(entry) == entry.key \in paths
      found == SelectSeq(context.fileContents.entries, Named)
  IN IF found = <<>> THEN "" ELSE found[1].value

resolveVariable(name, context) ==
  IF name \in DOMAIN context THEN context[name]
  ELSE IF name = "sourceFiles" THEN context.fileContents
  ELSE IF name \in FileGroups THEN extractFiles(name, context)
  ELSE IF name = "readme" THEN Str(FirstContent(context, {"README.md", "readme.md"}))
  ELSE IF name = "apiSpec"
  THEN Str(FirstContent(context, {"openapi.yaml", "openapi.json", "swagger.yaml",
                                  "swagger.json", "api.yaml", "api.json"}))
  ELSE NullValue

\* the pieces of a template: literal text, {{name}}, {{previousContext.promptId}}
Lit(text) == [piece |-> "text", name |-> text]
Var(name) == [piece |-> "variable", name |-> name]
Prev(promptId) == [piece |-> "previous", name |-> promptId]

Variable(name, type) == [name |-> name, type |-> type]

\* the variables the tasks of the shipped catalogue declare
VariablesOf(promptId) ==
  CASE promptId = "arch-overview" ->
         << Variable("repoName", "string"), Variable("repoType", "string"),
            Variable("techStack", "array"),
            Variable("directoryStructure", "directory_structure"),
            Variable("configFiles", "object") >>
    [] promptId = "arch-components" -> << Variable("sourceFiles", "object") >>
    [] promptId = "arch-dependencies" ->
         << Variable("packageFiles", "object"), Variable("sourceFiles", "object") >>
    [] promptId = "security-secrets" -> << Variable("fileContents", "object") >>
    [] promptId = "security-vulnerabilities" ->
         << Variable("techStack", "array"), Variable("sourceFiles", "object") >>
    [] promptId = "security-dependencies" ->
         << Variable("packageFiles", "object"), Variable("lockFiles", "object") >>
    [] promptId = "perf-analysis" ->
         << Variable("techStack", "array"), Variable("repoType", "string"),
            Variable("sourceFiles", "object") >>
    [] promptId = "docs-analysis" ->
         << Variable("readme", "file_content"), Variable("docs", "object"),
            Variable("codeComments", "object") >>
    [] promptId = "test-analysis" ->
         << Variable("testFiles", "object"), Variable("sourceFiles", "array"),
            Variable("testConfig", "object") >>
    [] promptId = "maintain-analysis" -> << Variable("sourceFiles", "object") >>
    [] promptId = "backend-api-design" ->
         << Variable("routeFiles", "object"), Variable("apiSpec", "file_content") >>
    [] promptId = "frontend-component-analysis" ->
         << Variable("componentFiles", "object"), Variable("stateFiles", "object") >>

\* their templates: the task text, each placeholder under its heading, the
\* instructions
TemplateOf(promptId) ==
  LET Under(piece) == <<Lit("heading"), piece>>
      placeholders ==
        CASE promptId = "arch-components" ->
               << Prev("arch-overview"), Var("sourceFiles") >>
          [] promptId = "arch-dependencies" ->
               << Var("packageFiles"), Var("sourceFiles"), Prev("arch-components") >>
          [] promptId = "maintain-analysis" ->
               << Var("sourceFiles"), Prev("arch-overview") >>
          [] OTHER ->
               [i \in DOMAIN VariablesOf(promptId) |-> Var(VariablesOf(promptId)[i].name)]
      RECURSIVE Headed(_)
      Headed(pieces) == IF pieces = <<>> THEN <<>>
                        ELSE Under(Head(pieces)) \o Headed(Tail(pieces))
  IN <<Lit("task")>> \o Headed(placeholders) \o <<Lit("instructions")>>

\* the text of a placeholder: `{{${variable.name}}}`, and the text the nested
\* regex /\{\{previousContext\.([a-z-]+)\}\}/gi matches for a task id
Placeholder(name) == "{{" \o name \o "}}"
PreviousRef(promptId) == "{{previousContext." \o promptId \o "}}"

RECURSIVE ReplaceAll(_, _, _)
\* String.replace with a global pattern, on a text kept as its parts: every part
\* that is the pattern is replaced by the parts of the replacement
ReplaceAll(text, pattern, replacement) ==
  IF text = <<>> THEN <<>>
  ELSE (IF Head(text) = pattern THEN replacement ELSE <<Head(text)>>)
       \o ReplaceAll(Tail(text), pattern, replacement)

RECURSIVE renderVariables(_, _, _)
\* the first pass of renderPrompt: for each declared variable whose placeholder
\* the content holds, every occurrence is replaced by the formatted value, in the
\* template and in the text the variables before it have put in.  The content is
\* kept piece by piece: text |-> the text a piece has become.
renderVariables(content, variables, context) ==
  IF variables = <<>> THEN content
  ELSE LET variable == Head(variables)
           value == resolveVariable(variable.name, context)
           rendered == formatValue(value, variable.type)
       IN renderVariables(
            [i \in DOMAIN content |->
               IF content[i].piece = "variable" /\ content[i].name = variable.name
               THEN [piece |-> "rendered", name |-> variable.name, text |-> rendered]
               ELSE IF content[i].piece = "rendered"
               THEN [content[i] EXCEPT
                       !.text = ReplaceAll(@, Placeholder(variable.name), rendered)]
               ELSE content[i]],
            Tail(variables), context)

\* a second pass that only replaces the references the chain holds
renderPreviousKeepsMissing(content, context) ==
  [i \in DOMAIN content |->
     IF content[i].piece = "previous" /\ content[i].name \in DOMAIN context.previousContext
     THEN [piece |-> "rendered", name |-> content[i].name,
           text |-> <<context.previousContext[content[i].name]>>]
     ELSE content[i]]

\* the ids a text of the model may refer to: those of the shipped tasks (each is
\* matched by [a-z-]+)
ReferableIds ==
  UNION { {DEFAULT_PROMPTS[c][i].id : i \in DOMAIN DEFAULT_PROMPTS[c]} :
          c \in DOMAIN DEFAULT_PROMPTS }

\* what the callback of the second pass returns for a reference to promptId
previousResult(promptId, context) ==
  IF promptId \in DOMAIN context.previousContext
     /\ context.previousContext[promptId] # ""
  THEN <<context.previousContext[promptId]>>
  ELSE <<"[No previous context for ", promptId, "]">>

RECURSIVE ReplacePrevious(_, _, _)
\* the nested regex on a text the first pass has put in: every part that is a
\* reference to one of the ids is replaced, once, by what the callback returns
ReplacePrevious(text, ids, context) ==
  IF text = <<>> THEN <<>>
  ELSE (IF \E id \in ids : Head(text) = PreviousRef(id)
        THEN previousResult(CHOOSE id \in ids : Head(text) = PreviousRef(id), context)
        ELSE <<Head(text)>>)
       \o ReplacePrevious(Tail(text), ids, context)

\* the second pass: {{previousContext.promptId}}, over the whole content
renderPrevious(content, context) ==
  [i \in DOMAIN content |->
     IF content[i].piece = "previous"
     THEN [piece |-> "rendered", name |-> content[i].name,
           text |-> previousResult(content[i].name, context)]
     ELSE IF content[i].piece = "rendered"
     THEN [content[i] EXCEPT !.text = ReplacePrevious(@, ReferableIds, context)]
     ELSE content[i]]

RECURSIVE Concat(_)
\* the string the pieces make up; a placeholder that was not replaced stays as it is
Concat(content) ==
  IF content = <<>> THEN <<>>
  ELSE (IF Head(content).piece = "rendered" THEN Head(content).text
        ELSE <<Head(content).name>>) \o Concat(Tail(content))

\* PromptEngine.renderPrompt: the content returned, and piece by piece what the
\* template has become
renderPromptContent(promptId, context) ==
  LET pieces == renderPrevious(renderVariables(TemplateOf(promptId), VariablesOf(promptId),
                                               context), context)
  IN [promptId |-> promptId, content |-> Concat(pieces), pieces |-> pieces]

\* ------------------------------------------------------------- TypeDetector
\* A checkout is a directory tree: files |-> the content of each file of the
\* directory by name, dirs |-> its subdirectories by name.  The names of the
\* model are in lower case and none is matched by DEFAULT_IGNORE_PATTERNS.
Dir(files, dirs) == [files |-> files, dirs |-> dirs]

\* the content of a file: readable or not (too large, i/o error), and for a
\* manifest whether JSON.parse accepts it, the dependencies it names and whether
\* it has main, exports or types
Content(readable, parses, deps, exports) ==
  [readable |-> readable, parses |-> parses, deps |-> deps, exports |-> exports]

PlainFile == Content(TRUE, FALSE, {}, FALSE)
Unreadable == Content(FALSE, FALSE, {}, FALSE)
Malformed == Content(TRUE, FALSE, {"react-native", "express"}, TRUE)
Manifest(deps, exports) == Content(TRUE, TRUE, deps, exports)

\* path.extname(name).toLowerCase(), for the names of the model
extname(name) ==
  CASE name \in {"main.tf"} -> ".tf"
    [] name \in {"index.ts"} -> ".ts"
    [] name \in {"app.swift"} -> ".swift"
    [] name \in {"main.kt"} -> ".kt"
    [] name \in {"package.json"} -> ".json"
    [] name \in {"go.mod"} -> ".mod"
    [] name \in {"readme.md"} -> ".md"
    [] OTHER -> ""

FileInfo(path) == [path |-> path, name |-> path[Len(path)], extension |-> extname(path[Len(path)])]

RECURSIVE PathsOf(_)
\* the relative paths of the files of a tree, as sequences of segments
PathsOf(tree) ==
  {<<name>> : name \in DOMAIN tree.files}
    \cup UNION { {<<d>> \o path : path \in PathsOf(tree.dirs[d])} : d \in DOMAIN tree.dirs }

\* RepoManager.getFiles
getFiles(tree) == {FileInfo(path) : path \in PathsOf(tree)}

\* RepoManager.readFile(localPath, name): the content, or null
readFile(tree, name) ==
  IF name \in DOMAIN tree.files /\ tree.files[name].readable
  THEN Some(tree.files[name]) ELSE Null

\* a readPackageJson that takes what it read for a parsed manifest
readPackageJsonUnparsed(tree) == readFile(tree, "package.json")

\* TypeDetector.readPackageJson: the parsed manifest, or null
readPackageJson(tree) ==
  LET content == readFile(tree, "package.json") IN
  IF IsSome(content) /\ Val(content).parses THEN content ELSE Null

\* DETECTION_WEIGHTS, in tenths
DETECTION_WEIGHTS == [file |-> 3, dependency |-> 4, pattern |-> 2, structure |-> 1]

TYPE_PRIORITY ==
  [t \in RepositoryType |->
     CASE t = "infra-as-code" -> 100 [] t = "library" -> 90 [] t = "monorepo" -> 85
       [] t = "mobile" -> 80 [] t = "frontend" -> 70 [] t = "backend" -> 60
       [] OTHER -> 0]

\* the keys of TYPE_DETECTION_PATTERNS and of the scores, in insertion order
TypeOrder ==
  <<"backend", "frontend", "mobile", "infra-as-code", "library", "monorepo", "unknown">>

\* a pattern of TYPE_DETECTION_PATTERNS in lower case: name/ is a directory pattern
File(name) == [name |-> name, directory |-> FALSE]
Directory(name) == [name |-> name, directory |-> TRUE]

TYPE_DETECTION_PATTERNS ==
  [t \in RepositoryType |->
     CASE t = "backend" ->
            << File("package.json"), File("requirements.txt"), File("go.mod"),
               File("cargo.toml"), File("pom.xml"), File("build.gradle"), File("gemfile"),
               File("composer.json") >>
       [] t = "frontend" ->
            << File("package.json"), File("next.config.js"), File("nuxt.config.js"),
               File("vite.config.ts"), File("webpack.config.js"), File("angular.json"),
               File("svelte.config.js") >>
       [] t = "mobile" ->
            << Directory("ios"), Directory("android"), File("app.tsx"),
               File("pubspec.yaml"), File("podfile"), File("build.gradle"),
               File("capacitor.config.json") >>
       [] t = "infra-as-code" ->
            << File("main.tf"), Directory("terraform"), File("pulumi.yaml"),
               Directory("ansible"), Directory("kubernetes"), Directory("k8s"),
               Directory("helm"), File("docker-compose.yml") >>
       [] t = "library" ->
            << File("package.json"), File("setup.py"), File("pyproject.toml"),
               File("cargo.toml"), Directory("lib") >>
       [] t = "monorepo" ->
            << File("pnpm-workspace.yaml"), File("lerna.json"), File("nx.json"),
               File("turbo.json"), Directory("packages"), Directory("apps") >>
       [] OTHER -> <<>>]

\* a TypeIndicator; confidence in hundredths
Indicator(type, name, confidence, suggestedType) ==
  [type |-> type, name |-> name, confidence |-> confidence, suggestedType |-> suggestedType]

\* filePath.startsWith(dirName + '/') || filePath.includes('/' + dirName + '/')
UnderDirectory(path, dirName) == \E k \in 1..(Len(path) - 1) : path[k] = dirName

\* a detectFromFiles that only looks for directories
fileIndicatorOfDirectories(files, repoType, pattern) ==
  IF pattern.directory /\ \E f \in files : UnderDirectory(f.path, pattern.name)
  THEN <<Indicator("file", pattern.name, 60, repoType)>>
  ELSE <<>>

\* the indicator detectFromFiles pushes for one pattern, if any
fileIndicator(files, repoType, pattern) ==
  IF \E f \in files : f.name = pattern.name
  THEN <<Indicator("file", pattern.name, 70, repoType)>>
  ELSE IF pattern.directory /\ \E f \in files : UnderDirectory(f.path, pattern.name)
       THEN <<Indicator("file", pattern.name, 60, repoType)>>
       ELSE <<>>

RECURSIVE Flatten(_)
\* the concatenation of a sequence of sequences
Flatten(seqs) == IF seqs = <<>> THEN <<>> ELSE Head(seqs) \o Flatten(Tail(seqs))

\* TypeDetector.detectFromFiles: the indicators pushed, in order
detectFromFiles(files) ==
  Flatten([t \in DOMAIN TypeOrder |->
             Flatten([p \in DOMAIN TYPE_DETECTION_PATTERNS[TypeOrder[t]] |->
                        fileIndicator(files, TypeOrder[t],
                                      TYPE_DETECTION_PATTERNS[TypeOrder[t]][p])])])

\* the indicators a list of rules pushes: a rule fires when one of its names is
\* among the dependencies
Rule(names, name, confidence, suggestedType) ==
  [names |-> names, indicator |-> Indicator("dependency", name, confidence, suggestedType)]

fired(rules, deps) ==
  LET Fires(rule) == rule.names \cap deps # {} IN
  LET hits == SelectSeq(rules, Fires) IN [i \in DOMAIN hits |-> hits[i].indicator]

\* TypeDetector.checkDependencies, deps = Object.keys(allDeps)
checkDependencies(deps) ==
  fired(<< Rule({"react", "react-dom"}, "react", 80, "frontend"),
           Rule({"vue"}, "vue", 80, "frontend"),
           Rule({"@angular/core"}, "@angular/core", 80, "frontend"),
           Rule({"svelte"}, "svelte", 80, "frontend"),
           Rule({"next"}, "next", 70, "frontend"),
           Rule({"express"}, "express", 80, "backend"),
           Rule({"@nestjs/core"}, "@nestjs/core", 90, "backend"),
           Rule({"fastify"}, "fastify", 80, "backend"),
           Rule({"koa"}, "koa", 80, "backend"),
           Rule({"react-native"}, "react-native", 95, "mobile"),
           Rule({"@ionic/angular", "@ionic/react", "@ionic/vue"}, "ionic", 90, "mobile"),
           Rule({"@capacitor/core"}, "@capacitor/core", 85, "mobile"),
           Rule({"lerna", "nx", "turbo"}, "monorepo-tool", 90, "monorepo") >>, deps)

\* TypeDetector.checkPythonDependencies: the text of requirements.txt includes a name
checkPythonDependencies(deps) ==
  fired(<< Rule({"django"}, "django", 90, "backend"),
           Rule({"flask"}, "flask", 85, "backend"),
           Rule({"fastapi"}, "fastapi", 90, "backend"),
           Rule({"kivy", "beeware"}, "python-mobile", 80, "mobile") >>, deps)

\* TypeDetector.checkGoDependencies: the text of go.mod includes a module path
checkGoDependencies(deps) ==
  fired(<< Rule({"github.com/gin-gonic/gin"}, "gin", 90, "backend"),
           Rule({"github.com/gofiber/fiber"}, "fiber", 90, "backend"),
           Rule({"github.com/labstack/echo"}, "echo", 90, "backend") >>, deps)

\* TypeDetector.checkRustDependencies
checkRustDependencies(deps) ==
  fired(<< Rule({"actix-web"}, "actix-web", 90, "backend"),
           Rule({"rocket"}, "rocket", 90, "backend"),
           Rule({"tauri"}, "tauri", 85, "frontend") >>, deps)

\* the dependencies a text manifest names, when it can be read
textDeps(tree, name) ==
  LET content == readFile(tree, name) IN
  IF IsSome(content) THEN Val(content).deps ELSE {}

\* TypeDetector.detectFromDependencies
detectFromDependencies(tree) ==
  LET packageJson == readPackageJson(tree) IN
  (IF IsSome(packageJson)
   THEN checkDependencies(Val(packageJson).deps)
          \o (IF Val(packageJson).exports
              THEN <<Indicator("pattern", "Library exports", 60, "library")>> ELSE <<>>)
   ELSE <<>>)
  \o checkPythonDependencies(textDeps(tree, "requirements.txt"))
  \o checkGoDependencies(textDeps(tree, "go.mod"))
  \o checkRustDependencies(textDeps(tree, "cargo.toml"))

\* structure.children of type directory, lower case: the directories of the root
topLevelDirs(tree) == DOMAIN tree.dirs

\* TypeDetector.detectFromStructure
detectFromStructure(tree) ==
  LET dirs == topLevelDirs(tree)
      When(cond, name, confidence, suggestedType) ==
        IF cond THEN <<Indicator("structure", name, confidence, suggestedType)>> ELSE <<>>
  IN When(dirs \cap {"packages", "apps"} # {}, "monorepo-structure", 70, "monorepo")
     \o When(dirs \cap {"terraform", "infrastructure"} # {}, "infra-directory", 80,
             "infra-as-code")
     \o When({"ios", "android"} \subseteq dirs, "mobile-platforms", 90, "mobile")
     \o When(dirs \cap {"components", "pages"} # {}, "frontend-structure", 50, "frontend")
     \o When(dirs \cap {"controllers", "routes", "api"} # {}, "backend-structure", 50,
             "backend")
     \o When(/\ dirs \cap {"lib", "src"} # {}
             /\ dirs \cap {"test", "tests"} # {}
             /\ "examples" \in dirs, "library-structure", 60, "library")

RECURSIVE SumScores(_, _)
\* the sum of confidence * weight over the indicators that suggest a type, in
\* thousandths
SumScores(indicators, type) ==
  IF indicators = <<>> THEN 0
  ELSE (IF Head(indicators).suggestedType = type
        THEN Head(indicators).confidence * DETECTION_WEIGHTS[Head(indicators).type]
        ELSE 0) + SumScores(Tail(indicators), type)

\* the greatest of a non-empty set of numbers
Max(numbers) == CHOOSE m \in numbers : \A n \in numbers : n <= m

\* a maximum that forgets the types after the third
maxScoreOfFirstTypes(sums) == Max({sums[TypeOrder[i]] : i \in 1..3} \cup {10})

\* Math.max(...Object.values(scores), 0.01), in thousandths
maxScore(sums) == Max({sums[t] : t \in RepositoryType} \cup {10})

\* TypeDetector.calculateTypeScores: the normalised score of a type is
\* scores[type] / maxScore, kept as the fraction sums[type] / max
calculateTypeScores(indicators) ==
  LET sums == [t \in RepositoryType |-> SumScores(indicators, t)]
  IN [sums |-> sums, max |-> maxScore(sums)]

\* an entry of Object.entries(typeScores): the type and the numerator of its score
Entry2(type, score) == [type |-> type, score |-> score]

Abs(n) == IF n < 0 THEN -n ELSE n

\* a comparator that sorts by ascending score
compareAscending(a, b, max) == a.score - b.score

\* the comparator of the sort in detect, for scores of denominator max:
\* Math.abs(scoreDiff) < 0.1 ? TYPE_PRIORITY[b] - TYPE_PRIORITY[a] : scoreDiff
compare(a, b, max) ==
  IF Abs(b.score - a.score) * 10 < max
  THEN TYPE_PRIORITY[b.type] - TYPE_PRIORITY[a.type]
  ELSE b.score - a.score

RECURSIVE Reverse(_)
Reverse(seq) == IF seq = <<>> THEN <<>> ELSE Reverse(Tail(seq)) \o <<Head(seq)>>

RECURSIVE CountRun(_, _, _, _)
\* Array.prototype.sort of the engine (an insertion sort with binary search for
\* arrays this short).  CountRun: the length of the run the array starts with,
\* k being the length counted so far
CountRun(array, k, descending, max) ==
  IF k >= Len(array) THEN k
  ELSE LET order == compare(array[k + 1], array[k], max) IN
       IF (descending /\ order >= 0) \/ (~descending /\ order < 0) THEN k
       ELSE CountRun(array, k + 1, descending, max)

RECURSIVE BinarySearch(_, _, _, _, _)
\* the number of elements of array[1..right] the pivot is placed after
BinarySearch(array, pivot, left, right, max) ==
  IF left >= right THEN left
  ELSE LET mid == left + ((right - left) \div 2) IN
       IF compare(pivot, array[mid + 1], max) < 0
       THEN BinarySearch(array, pivot, left, mid, max)
       ELSE BinarySearch(array, pivot, mid + 1, right, max)

RECURSIVE BinaryInsertionSort(_, _, _)
\* array[1..start] is sorted; the elements after it are inserted one by one
BinaryInsertionSort(array, start, max) ==
  IF start >= Len(array) THEN array
  ELSE LET pivot == array[start + 1]
           left == BinarySearch(array, pivot, 0, start, max)
       IN BinaryInsertionSort(
            SubSeq(array, 1, left) \o <<pivot>> \o SubSeq(array, left + 1, start)
              \o SubSeq(array, start + 2, Len(array)),
            start + 1, max)

\* entries.sort(comparator)
sort(array, max) ==
  IF Len(array) < 2 THEN array
  ELSE LET descending == compare(array[2], array[1], max) < 0
           run == CountRun(array, 2, descending, max)
           made == IF descending
                   THEN Reverse(SubSeq(array, 1, run)) \o SubSeq(array, run + 1, Len(array))
                   ELSE array
       IN BinaryInsertionSort(made, run, max)

\* Object.entries(typeScores).filter(score > 0).sort(...)
sortedTypesOf(typeScores) ==
  LET Positive(type) == typeScores.sums[type] > 0
      types == SelectSeq(TypeOrder, Positive)
  IN sort([i \in DOMAIN types |-> Entry2(types[i], typeScores.sums[types[i]])],
          typeScores.max)

\* TECH_STACK_PATTERNS, for the technologies a name of the model can bring in:
\* extensions |-> the *.ext patterns, names |-> the other file patterns,
\* dependencies |-> the dependency patterns
Tech(extensions, names, dependencies) ==
  [extensions |-> extensions, names |-> names, dependencies |-> dependencies]

TechStack ==
  {"typescript", "go", "swift", "kotlin", "express", "nestjs", "fastify", "gin", "react",
   "react-native", "swiftui", "kubernetes", "terraform", "nextjs"}

TECH_STACK_PATTERNS ==
  [tech \in TechStack |->
     CASE tech = "typescript" -> Tech({".ts", ".tsx"}, {"tsconfig.json"}, {})
       [] tech = "go" -> Tech({".go"}, {"go.mod", "go.sum"}, {})
       [] tech = "swift" -> Tech({".swift"}, {"package.swift"}, {})
       [] tech = "kotlin" -> Tech({".kt"}, {"build.gradle.kts"}, {})
       [] tech = "express" -> Tech({}, {}, {"express"})
       [] tech = "nestjs" -> Tech({}, {}, {"@nestjs/core"})
       [] tech = "fastify" -> Tech({}, {}, {"fastify"})
       [] tech = "gin" -> Tech({}, {}, {"github.com/gin-gonic/gin"})
       [] tech = "react" -> Tech({}, {}, {"react", "react-dom"})
       [] tech = "react-native" -> Tech({}, {}, {"react-native"})
       [] tech = "swiftui" -> Tech({".swift"}, {}, {})
       [] tech = "kubernetes" -> Tech({".yaml"}, {"k8s/", "kubernetes/"}, {})
       [] tech = "terraform" -> Tech({".tf"}, {"main.tf"}, {})
       [] tech = "nextjs" -> Tech({}, {}, {"next"})]

\* text.includes(part), for the names of indicators and of dependency patterns
Includes(text, part) == text = part \/ <<text, part>> \in {<<"react-native", "react">>}

\* TypeDetector.detectTechStack
detectTechStack(tree, files, indicators) ==
  LET fileExtensions == {f.extension : f \in files}
      fileNames == {f.name : f \in files}
      packageJson == readPackageJson(tree)
      allDeps == IF IsSome(packageJson) THEN Val(packageJson).deps ELSE {}
      ByFile(tech) ==
        \/ TECH_STACK_PATTERNS[tech].extensions \cap fileExtensions # {}
        \/ TECH_STACK_PATTERNS[tech].names \cap fileNames # {}
      ByIndicator(tech) ==
        \E dep \in TECH_STACK_PATTERNS[tech].dependencies :
          \E i \in DOMAIN indicators :
            indicators[i].type = "dependency" /\ Includes(indicators[i].name, dep)
      ByPackageJson(tech) == TECH_STACK_PATTERNS[tech].dependencies \cap allDeps # {}
  IN {tech \in TechStack : ByFile(tech) \/ ByIndicator(tech) \/ ByPackageJson(tech)}

RECURSIVE getDirectoryStructure(_, _)
\* RepoManager.getDirectoryStructure: the directories of the tree down to
\* maxDepth; a directory at that depth has no children property
getDirectoryStructure(tree, maxDepth) ==
  IF maxDepth <= 0 THEN [children |-> Null]
  ELSE [children |-> Some([d \in DOMAIN tree.dirs |->
                             getDirectoryStructure(tree.dirs[d], maxDepth - 1)])]

\* the indicators of detectFromStructure for a structure as it is given to detect
structureIndicators(tree, directoryStructure) ==
  IF directoryStructure.children = Null THEN <<>> ELSE detectFromStructure(tree)

\* the default depth of getDirectoryStructure, and the depth detectMonorepoSubTypes asks for
DefaultDepth == 5
SubTypeDepth == 2

packageDirs == <<"packages", "apps", "libs", "modules">>

RECURSIVE detect(_, _, _)
\* a monorepo whose packages are not looked at
detectMonorepoSubTypesNone(tree, directoryStructure) == {}

\* TypeDetector.detectMonorepoSubTypes
detectMonorepoSubTypes(tree, directoryStructure) ==
  IF directoryStructure.children = Null THEN {}
  ELSE LET children == Val(directoryStructure.children)
           subDirs == { <<dir, subDir>> \in
                          {packageDirs[i] : i \in DOMAIN packageDirs} \X
                            UNION {DOMAIN tree.dirs[d].dirs : d \in DOMAIN tree.dirs} :
                          /\ dir \in DOMAIN children
                          /\ children[dir].children # Null
                          /\ subDir \in DOMAIN Val(children[dir].children) }
           types == { detect(tree.dirs[s[1]].dirs[s[2]],
                             getDirectoryStructure(tree.dirs[s[1]].dirs[s[2]], SubTypeDepth),
                             getFiles(tree.dirs[s[1]].dirs[s[2]])).primaryType : s \in subDirs }
       IN types \ {"unknown", "monorepo"}

\* TypeDetector.detect; typeScores and sortedTypes are kept beside the result
detect(tree, directoryStructure, files) ==
  LET indicators == detectFromFiles(files) \o detectFromDependencies(tree)
                      \o structureIndicators(tree, directoryStructure)
      typeScores == calculateTypeScores(indicators)
      sortedTypes == sortedTypesOf(typeScores)
      primaryType == IF sortedTypes # <<>> THEN sortedTypes[1].type ELSE "unknown"
      confidence == IF sortedTypes # <<>> THEN sortedTypes[1].score ELSE 0
      Strong(i) == i.confidence > 30
  IN [primaryType |-> primaryType,
      confidence |-> [num |-> IF confidence < typeScores.max THEN confidence
                              ELSE typeScores.max,
                      den |-> typeScores.max],
      techStack |-> detectTechStack(tree, files, indicators),
      indicators |-> SelectSeq(indicators, Strong),
      subTypes |-> IF primaryType = "monorepo"
                   THEN Some(detectMonorepoSubTypes(tree, directoryStructure))
                   ELSE Null,
      allIndicators |-> indicators,
      typeScores |-> typeScores,
      sortedTypes |-> sortedTypes]

\* --------------------------------------------------------------- RepoManager
Platforms == {"github.com", "gitlab.com", "bitbucket.org"}

RepoUrl(host, path, mixedCase, dotGit) ==
  [host |-> host, path |-> path, mixedCase |-> mixedCase, dotGit |-> dotGit]

\* https://github.com/acme/app, https://GitHub.com/Acme/App.git, https://example.org/acme/app
PlainUrl == RepoUrl("github.com", "acme/app", FALSE, FALSE)
DotGitUrl == RepoUrl("github.com", "acme/app", TRUE, TRUE)
ForeignUrl == RepoUrl("example.org", "acme/app", FALSE, FALSE)

\* the urls of the requests
RepoUrls == {PlainUrl, ForeignUrl}

parseRepoUrl(url) ==
  IF url.host \in Platforms
  THEN [isValid |-> TRUE, platform |-> url.host, name |-> url.path, branch |-> "", error |-> ""]
  ELSE [isValid |-> FALSE, platform |-> "", name |-> "", branch |-> "",
        error |-> "Unsupported Git platform"]

\* ------------------------------------------------------------- CacheService
\* repoUrl.toLowerCase().replace(/\.git$/, '')
NormalizeUrl(url) == [url EXCEPT !.mixedCase = FALSE, !.dotGit = FALSE]

buildCacheKey(repoUrl, branch) ==
  [url |-> NormalizeUrl(repoUrl), branch |-> IF branch # "" THEN branch ELSE "default"]

\* the entry CacheService.set serialises into the memory it stores
CacheEntry(repoUrl, branch, commitHash, result, clock) ==
  [repoUrl |-> repoUrl, branch |-> branch, commitHash |-> commitHash, result |-> result,
   createdAt |-> clock, expiresAt |-> clock + CACHE_TTL_DAYS]

\* a memory of the external store: what /v1/memory/store keeps for one set()
Memory(id, repoUrl, branch, commitHash, result, clock) ==
  [id |-> id, cacheKey |-> buildCacheKey(repoUrl, branch),
   content |-> CacheEntry(repoUrl, branch, commitHash, result, clock)]

\* /v1/memory/recall with query = cacheKey, limit 1: the memories it may return
Recall(store, cacheKey) == {m \in store : m.cacheKey = cacheKey}

\* a get that still serves an entry at the instant it expires
cacheGetUntilExpiry(memories, clock) ==
  IF memories # <<>> /\ memories[1].content.expiresAt >= clock
  THEN [entry |-> Some(memories[1].content), delete |-> {}]
  ELSE [entry |-> Null,
        delete |-> IF memories # <<>> THEN {memories[1].id} ELSE {}]

\* CacheService.get once the recall has answered with `memories` (0 or 1 memory):
\* the entry when it is unexpired, else null, and the memory to delete
cacheGet(memories, clock) ==
  IF memories # <<>> /\ memories[1].content.expiresAt > clock
  THEN [entry |-> Some(memories[1].content), delete |-> {}]
  ELSE [entry |-> Null,
        delete |-> IF memories # <<>> THEN {memories[1].id} ELSE {}]

\* ------------------------------------------------- the reasoning service
JsNull == "null"

\* obj.name is set (every property value of the model is truthy)
Has(obj, name) == name \in DOMAIN obj

\* obj.name when it is an array, else the empty array
GetArray(obj, name) == IF Has(obj, name) THEN obj[name] ELSE <<>>

Payload == [pattern |-> "layered", components |-> <<"component">>, nodes |-> <<"node">>,
            findings |-> <<"finding">>, recommendations |-> <<"advice">>]

\* a reply of POST /v1/orchestration/task: ok = the call returned a 2xx response,
\* isObject = response.data is an object, fields = its properties
Reply(ok, isObject, fields) == [ok |-> ok, isObject |-> isObject, fields |-> fields]

NominalReply == Reply(TRUE, TRUE, [result |-> Payload, usage |-> [totalTokens |-> 3]])

\* replies that differ from the nominal one: an error or timeout, a plain-text body,
\* and an object without usage whose content holds a null finding and a null
\* recommendation
DeviantReplies ==
  { Reply(FALSE, FALSE, [body |-> "error"]),
    Reply(TRUE, FALSE, [body |-> "text"]),
    Reply(TRUE, TRUE, [content |-> [findings |-> <<JsNull>>,
                                    recommendations |-> <<JsNull>>]]) }

\* ----------------------------------------------------- AnalysisOrchestrator
parseAgentOutput(response) ==
  IF ~response.isObject THEN Null
  ELSE LET data == response.fields IN
       IF Has(data, "result") THEN Some(data.result)
       ELSE IF Has(data, "content") THEN Some(data.content)
       ELSE IF Has(data, "output") THEN Some(data.output)
       ELSE IF Has(data, "data") THEN Some(data.data)
       ELSE Some(data)

AgentResult(taskId, type, success, output, tokensUsed, error) ==
  [taskId |-> taskId, type |-> type, success |-> success, output |-> output,
   tokensUsed |-> tokensUsed, error |-> error]

callMageAgent(taskId, taskType, response) ==
  IF response.ok
  THEN AgentResult(taskId, taskType, TRUE, parseAgentOutput(response),
                   IF response.isObject /\ Has(response.fields, "usage")
                   THEN response.fields.usage.totalTokens ELSE 0,
                   "")
  ELSE AgentResult(taskId, taskType, FALSE, Null, 0, "MageAgent call failed")

\* JSON.stringify(result.output), of an output that may be null
Stringify(output) == [json |-> output]

\* output.a || output.b || []
FirstOf(output, a, b) ==
  IF Has(output, a) THEN output[a]
  ELSE IF Has(output, b) THEN output[b] ELSE <<>>

parseSecurityFindings(output, agentType) ==
  LET findings == FirstOf(output, "findings", "vulnerabilities") IN
  [i \in 1..Len(findings) |->
     [agentType |-> agentType, findingType |-> "security", title |-> findings[i]]]

parseFindings(output, findingType, agentType) ==
  LET findings == FirstOf(output, "findings", "issues") IN
  [i \in 1..Len(findings) |->
     [agentType |-> agentType, findingType |-> findingType, title |-> findings[i]]]

parseRecommendations(recs, category) ==
  [i \in 1..Len(recs) |-> [category |-> category, title |-> recs[i]]]

\* reading a property of a null array element raises a TypeError in the parsers
Raises(output, type) ==
  \/ /\ type = "security"
     /\ \E i \in DOMAIN FirstOf(output, "findings", "vulnerabilities") :
           FirstOf(output, "findings", "vulnerabilities")[i] = JsNull
  \/ /\ type \in {"performance", "documentation", "testing", "maintainability"}
     /\ \E i \in DOMAIN FirstOf(output, "findings", "issues") :
           FirstOf(output, "findings", "issues")[i] = JsNull
  \/ \E i \in DOMAIN GetArray(output, "recommendations") :
        output.recommendations[i] = JsNull

EmptyArchitecture == [pattern |-> "unknown", components |-> <<>>, dependencies |-> <<>>]

\* a loop without its guard
SkipsNothing(result) == FALSE

\* the guard of the loop of synthesizeResults: results that are skipped
Skipped(result) == ~result.success \/ ~IsSome(result.output)

\* one iteration of the loop of synthesizeResults; past the guard every branch
\* reads a property of the output (`output.recommendations` at least), which
\* raises a TypeError on a null output
SynthesizeOne(acc, result) ==
  IF Skipped(result) \/ acc.threw THEN acc
  ELSE IF ~IsSome(result.output) THEN [acc EXCEPT !.threw = TRUE]
  ELSE LET output == Val(result.output) IN
    IF Raises(output, result.type) THEN [acc EXCEPT !.threw = TRUE]
    ELSE
      [acc EXCEPT
        !.architecture =
           IF result.type # "architecture" THEN @
           ELSE IF result.taskId = "arch-overview"
                THEN [@ EXCEPT !.pattern = IF Has(output, "pattern")
                                           THEN output.pattern ELSE @]
           ELSE IF result.taskId = "arch-components"
                THEN [@ EXCEPT !.components = GetArray(output, "components")]
           ELSE IF result.taskId = "arch-dependencies"
                THEN [@ EXCEPT !.dependencies = GetArray(output, "nodes")]
           ELSE @,
        !.securityFindings =
           IF result.type = "security"
           THEN @ \o parseSecurityFindings(output, result.taskId) ELSE @,
        !.findings =
           IF result.type \in {"performance", "documentation", "testing", "maintainability"}
           THEN @ \o parseFindings(output, result.type, result.taskId) ELSE @,
        !.recommendations =
           @ \o parseRecommendations(GetArray(output, "recommendations"), result.type)]

RECURSIVE SynthesizeAll(_, _)
SynthesizeAll(acc, agentResults) ==
  IF agentResults = <<>> THEN acc
  ELSE SynthesizeAll(SynthesizeOne(acc, Head(agentResults)), Tail(agentResults))

\* synthesizeResults: threw = a parser raised; result = the AnalysisResult returned
synthesizeResults(analysis, primaryType, agentResults) ==
  LET acc == SynthesizeAll([architecture |-> EmptyArchitecture, findings |-> <<>>,
                            securityFindings |-> <<>>, recommendations |-> <<>>,
                            threw |-> FALSE], agentResults)
  IN [threw |-> acc.threw,
      result |-> [detectedType |-> primaryType,
                  architecture |-> acc.architecture,
                  findings |-> acc.findings,
                  securityFindings |-> IF analysis.includeSecurity
                                       THEN Some(acc.securityFindings) ELSE Null,
                  recommendations |-> acc.recommendations,
                  archMd |-> "",
                  repositoryInfo |-> Null]]

\* ---------------------------------------------------------------- requests
Request(repoUrl, branch, force, includeSecurityScan, webhookUrl) ==
  [repoUrl |-> repoUrl, branch |-> branch, force |-> force,
   includeSecurityScan |-> includeSecurityScan, webhookUrl |-> webhookUrl]

\* branch "" and webhookUrl "" stand for an omitted property (every use is `x || ...`
\* or `if (x)`); includeSecurityScan is omitted (Null), true or false
Requests ==
  { Request(u, b, f, s, w) :
      u \in RepoUrls, b \in {"", "main"}, f \in BOOLEAN,
      s \in {Null, Some(TRUE), Some(FALSE)}, w \in {"", "https://hook"} }

NoRequest == Request(RepoUrl("", "", FALSE, FALSE), "", FALSE, Null, "")

\* ------------------------------------------------------------------- state
VARIABLES
  job,        \* per job: the Analysis object, the frame of runAnalysis/runAgents, its I/O log
  store,      \* the memories of the external cache service
  clock,      \* the current time, in days
  tempDir,    \* the checkouts that exist under the temp directory
  catalogue,  \* the task catalogue the PromptEngine was built from
  flaky,      \* the tasks whose call the reasoning service may answer with a deviant reply
  faults,     \* how many replies of the reasoning service have been deviant ones
  engine      \* a call of a PromptEngine method made on its own: arguments and return value

vars == <<job, store, clock, tempDir, catalogue, flaky, faults, engine>>

\* no call of the PromptEngine outside the pipeline
NoCall == [method |-> "none", args |-> <<>>, returned |-> Null]

NoAnalysis ==
  [status |-> "none", progress |-> 0, branch |-> "", commitHash |-> "",
   includeSecurity |-> FALSE, forceReanalysis |-> FALSE, result |-> Null,
   errorMessage |-> Null,
   usage |-> [tokensConsumed |-> 0, agentsUsed |-> 0, cacheHit |-> FALSE]]

IdleJob ==
  [pc |-> "idle", request |-> NoRequest, analysis |-> NoAnalysis, returned |-> Null,
   localPath |-> Null, cloneResult |-> [commitHash |-> "", branch |-> ""],
   primaryType |-> "unknown", previousContext |-> <<>>, results |-> <<>>,
   ci |-> 0, queue |-> <<>>, progressBase |-> 0, synthesizedResult |-> Null,
   pending |-> Null, emitted |-> <<>>, statusLog |-> <<>>, calls |-> <<>>,
   webhooks |-> <<>>,
   io |-> [cacheReads |-> 0, cacheRead |-> "none", recalled |-> <<>>, readAt |-> 0,
           clones |-> 0, clone |-> "none", detect |-> "none", report |-> "none",
           cacheWrites |-> 0, stored |-> FALSE, cleanups |-> 0]]

\* a registry that forgets a job once it is over
activeAnalysesOfRunning ==
  [j \in {i \in Jobs : job[i].analysis.status \notin {"none", "completed", "failed"}} |->
     job[j].analysis]

\* the job registry of the orchestrators: activeAnalyses.get(id)
activeAnalyses == [j \in {i \in Jobs : job[i].analysis.status # "none"} |-> job[j].analysis]

\* an earlier run of the service left this result in the cache
PriorResult ==
  [detectedType |-> "library", architecture |-> EmptyArchitecture, findings |-> <<>>,
   securityFindings |-> Null, recommendations |-> <<>>, archMd |-> "md",
   repositoryInfo |-> Null]

\* --------------------------------------------- status, progress and events
emitProgress(s) ==
  [s EXCEPT !.emitted = Append(@, [status |-> s.analysis.status,
                                   progress |-> s.analysis.progress])]

\* every assignment to analysis.status is logged
SetStatus(s, status) ==
  [s EXCEPT !.analysis.status = status, !.statusLog = Append(@, status)]

updateStatus(s, status, progress) ==
  emitProgress([SetStatus(s, status) EXCEPT !.analysis.progress = progress])

\* a failAnalysis that records the message and leaves the status as it is
failAnalysisKeepsStatus(s, error) ==
  emitProgress([s EXCEPT !.analysis.errorMessage = Some(error)])

\* a failAnalysis that loses the message
failAnalysisDropsMessage(s, error) == emitProgress(SetStatus(s, "failed"))

failAnalysis(s, error) ==
  emitProgress([SetStatus(s, "failed") EXCEPT !.analysis.errorMessage = Some(error)])

\* a finally block that does not release the checkout
FinallyLeaks(s) == [s EXCEPT !.pc = "done"]

\* the finally block of runAnalysis: cleanup is awaited when a checkout exists
Finally(s) ==
  IF IsSome(s.localPath) THEN [s EXCEPT !.pc = "cleanup"] ELSE [s EXCEPT !.pc = "done"]

\* the catch block of runAnalysis
Catch(s, message) ==
  LET f == failAnalysis(s, message) IN
  IF f.request.webhookUrl # ""
  THEN [f EXCEPT !.pc = "webhook",
                 !.pending = Some([event |-> "analysis.failed",
                                   error |-> f.analysis.errorMessage])]
  ELSE Finally(f)

\* -------------------------------------------------------------- the pipeline
\* the replies the reasoning service may give to the call of a task: the nominal
\* one, and for a flaky task the deviant ones while the budget of deviant replies
\* lasts
Replies(taskId) ==
  IF taskId \in flaky /\ faults < MaxFaults
  THEN {NominalReply} \cup DeviantReplies ELSE {NominalReply}

\* a runAnalysis that reads the cache whatever the request says
runAnalysisEnterReadsCache(s) == [s EXCEPT !.pc = "cache_get"]

\* runAnalysis from its call in startAnalysis to its first await
runAnalysisEnter(s) ==
  IF ~s.request.force
  THEN [s EXCEPT !.pc = "cache_get"]
  ELSE [updateStatus(s, "cloning", Pct(10)) EXCEPT !.pc = "clone"]

\* a flag that is set only when the request asks for the scan
includeSecurityIfAsked(request) == request.includeSecurityScan = Some(TRUE)

\* includeSecurity: request.includeSecurityScan !== false
includeSecurityOf(request) == request.includeSecurityScan # Some(FALSE)

startAnalysis(s, request) ==
  LET parseResult == parseRepoUrl(request.repoUrl) IN
  IF ~parseResult.isValid
  THEN [s EXCEPT !.pc = "rejected", !.request = request]
  ELSE
    LET analysis ==
          [NoAnalysis EXCEPT
             !.status = "queued",
             !.progress = 0,
             !.branch = IF request.branch # "" THEN request.branch ELSE "main",
             !.includeSecurity = includeSecurityOf(request),
             !.forceReanalysis = request.force]
        registered == emitProgress([s EXCEPT !.request = request,
                                             !.analysis = analysis,
                                             !.statusLog = <<"queued">>])
        running == runAnalysisEnter(registered)
    IN [running EXCEPT !.returned = Some([status |-> running.analysis.status,
                                          progress |-> running.analysis.progress])]

StartAnalysis(j, request) ==
  /\ job[j].pc = "idle"
  /\ job' = [job EXCEPT ![j] = startAnalysis(job[j], request)]
  /\ UNCHANGED <<store, clock, tempDir, catalogue, flaky, faults, engine>>

\* a runAnalysis into which an error of the cache lookup is raised
afterCacheGetRaises(s, cached) ==
  IF s.io.cacheRead = "error" THEN Catch(s, "Cache get failed")
  ELSE IF IsSome(cached)
  THEN Finally(emitProgress(
         [SetStatus(s, "completed") EXCEPT
            !.analysis.progress = Pct(100),
            !.analysis.result = Some(Val(cached).result),
            !.analysis.usage.cacheHit = TRUE]))
  ELSE [updateStatus(s, "cloning", Pct(10)) EXCEPT !.pc = "clone"]

\* runAnalysis after `await this.cacheService.get(...)`
afterCacheGet(s, cached) ==
  IF IsSome(cached)
  THEN Finally(emitProgress(
         [SetStatus(s, "completed") EXCEPT
            !.analysis.progress = Pct(100),
            !.analysis.result = Some(Val(cached).result),
            !.analysis.usage.cacheHit = TRUE]))
  ELSE [updateStatus(s, "cloning", Pct(10)) EXCEPT !.pc = "clone"]

CacheGet(j) ==
  /\ job[j].pc = "cache_get"
  /\ LET cacheKey == buildCacheKey(job[j].request.repoUrl, job[j].request.branch)
         found == Recall(store, cacheKey)
     IN \E outcome \in {"served", "error"} :
        \E memories \in (IF outcome = "error" \/ found = {} THEN {<<>>}
                         ELSE {<<m>> : m \in found}) :
          LET got == cacheGet(memories, clock)
              read == [job[j] EXCEPT !.io.cacheReads = @ + 1,
                                     !.io.cacheRead = outcome,
                                     !.io.recalled = memories,
                                     !.io.readAt = clock]
          IN /\ job' = [job EXCEPT ![j] = afterCacheGet(read, got.entry)]
             /\ store' = {m \in store : m.id \notin got.delete}
  /\ UNCHANGED <<clock, tempDir, catalogue, flaky, faults, engine>>

\* RepoManager.cloneRepository: the result it returns for each outcome of git clone
cloneRepository(repoUrl, branch, outcome, path) ==
  LET parseResult == parseRepoUrl(repoUrl)
      repoBranch == IF branch # "" THEN branch
                    ELSE IF parseResult.branch # "" THEN parseResult.branch ELSE "main"
  IN IF ~parseResult.isValid
     THEN [success |-> FALSE, localPath |-> Null, commitHash |-> "", branch |-> "",
           error |-> parseResult.error]
     ELSE IF outcome = "cloned"
     THEN [success |-> TRUE, localPath |-> Some(path), commitHash |-> "c1",
           branch |-> repoBranch, error |-> ""]
     ELSE [success |-> FALSE, localPath |-> Null, commitHash |-> "", branch |-> "",
           error |-> IF outcome = "timeout" THEN "Clone timeout exceeded" ELSE "git error"]

\* a clone result that is never looked at
CloneResultIgnored(cloneResult) == FALSE

\* `if (!cloneResult.success) throw ...`
CloneFailed(cloneResult) == ~cloneResult.success

\* runAnalysis after `await this.repoManager.cloneRepository(...)`
afterClone(s, cloneResult) ==
  IF CloneFailed(cloneResult)
  THEN Catch(s, "Failed to clone repository")
  ELSE [updateStatus([s EXCEPT !.localPath = cloneResult.localPath,
                               !.cloneResult = [commitHash |-> cloneResult.commitHash,
                                                branch |-> cloneResult.branch],
                               !.analysis.commitHash = cloneResult.commitHash,
                               !.analysis.branch = cloneResult.branch],
                     "detecting", Pct(20))
        EXCEPT !.pc = "detect"]

\* what cloneRepository leaves under the temp directory.  A clone that succeeds
\* leaves its checkout; after an error of git the catch clause removes what there
\* is.  When the timer wins the race the catch clause runs fs.rm while git clone,
\* which nothing stops, is still writing: the removal may meet a directory that
\* git fills again or creates afterwards, and the checkout of that clone stays
cloneLeaves(dirs, cloneResult, outcome, path) ==
  IF cloneResult.success THEN {dirs \cup {path}}
  ELSE IF outcome = "timeout" /\ cloneResult.error = "Clone timeout exceeded"
  THEN {dirs, dirs \cup {path}}
  ELSE {dirs}

CloneRepository(j) ==
  /\ job[j].pc = "clone"
  /\ \E outcome \in {"cloned", "error", "timeout"} :
       LET cloneResult == cloneRepository(job[j].request.repoUrl, job[j].request.branch,
                                          outcome, j)
           called == [job[j] EXCEPT !.io.clones = @ + 1, !.io.clone = outcome]
       IN /\ job' = [job EXCEPT ![j] = afterClone(called, cloneResult)]
          /\ tempDir' \in cloneLeaves(tempDir, cloneResult, outcome, j)
  /\ UNCHANGED <<store, clock, catalogue, flaky, faults, engine>>

\* the types the classifier returns in the model
DetectedTypes == {"backend", "unknown"}

\* runAnalysis after the awaits of the detecting stage
afterDetect(s, outcome) ==
  IF outcome = "throws"
  THEN Catch(s, "detect failed")
  ELSE [updateStatus([s EXCEPT !.primaryType = outcome], "analyzing", Pct(30))
        EXCEPT !.pc = "agents"]

DetectType(j) ==
  /\ job[j].pc = "detect"
  /\ \E outcome \in DetectedTypes \cup {"throws"} :
       job' = [job EXCEPT ![j] = afterDetect([job[j] EXCEPT !.io.detect = outcome], outcome)]
  /\ UNCHANGED <<store, clock, tempDir, catalogue, flaky, faults, engine>>

\* ------------------------------------------------------------------ runAgents
\* a step per category that is not divided by the number of categories
progressPerCategoryWhole == 50 * ProgressScale

\* 50 / categories.length, on the scale of the stored progress
progressPerCategory == (50 * ProgressScale) \div Len(categories)

RECURSIVE enterCategory(_, _, _)
\* the category loop from categories[ci] on, up to the first category that has tasks:
\* skipped categories `continue`, the first other one sets the status and its queue
enterCategory(s, cat, ci) ==
  IF ci > Len(categories) THEN [s EXCEPT !.ci = ci, !.queue = <<>>]
  ELSE LET category == categories[ci]
           categoryPrompts == getPrompts(cat, s.primaryType, category)
       IN IF (category = "security" /\ ~s.analysis.includeSecurity) \/ categoryPrompts = <<>>
          THEN enterCategory(s, cat, ci + 1)
          ELSE [updateStatus(s, "analyzing", s.progressBase)
                EXCEPT !.ci = ci, !.queue = SortByOrder(categoryPrompts)]

RECURSIVE PlanFrom(_, _, _, _)
\* the tasks the two loops of runAgents go through, in the order they do
PlanFrom(cat, repoType, includeSecurity, ci) ==
  IF ci > Len(categories) THEN <<>>
  ELSE LET category == categories[ci]
           categoryPrompts == getPrompts(cat, repoType, category)
       IN (IF category = "security" /\ ~includeSecurity THEN <<>>
           ELSE SortByOrder(categoryPrompts))
          \o PlanFrom(cat, repoType, includeSecurity, ci + 1)

\* PromptEngine.renderPrompt, as far as the dependency chain is concerned
renderPrompt(prompt, previousContext) ==
  [promptId |-> prompt.id, chain |-> previousContext]

\* the head of the queue is rendered and sent to the reasoning service; when the
\* loop is over runAgents returns
dispatch(s) ==
  IF s.ci > Len(categories) THEN [s EXCEPT !.pc = "synthesize"]
  ELSE LET prompt == Head(s.queue)
           rendered == renderPrompt(prompt, s.previousContext)
       IN [s EXCEPT !.pc = "agent_call",
                    !.calls = Append(@, [taskId |-> rendered.promptId,
                                         category |-> categories[s.ci],
                                         contextRequired |-> prompt.contextRequired,
                                         chain |-> rendered.chain])]

\* runAgents from its call to the first request to the reasoning service
runAgentsEnter(s, cat) ==
  dispatch(enterCategory([s EXCEPT !.results = <<>>, !.previousContext = <<>>,
                                   !.progressBase = Pct(30)], cat, 1))

RunAgents(j) ==
  /\ job[j].pc = "agents"
  /\ job' = [job EXCEPT ![j] = runAgentsEnter(job[j], catalogue)]
  /\ UNCHANGED <<store, clock, tempDir, catalogue, flaky, faults, engine>>

\* every result marked successful goes into the chain, with or without output
ChainedOnSuccess(result) == result.success

\* `if (result.success && result.output)`: the result goes into the chain
Chained(result) == result.success /\ IsSome(result.output)

\* a task loop without its try/catch: a failed call ends runAgents
TaskFailureAborts(result) == ~result.success

\* a failed task is recorded, it does not end the loop
TaskFailureIsFatal(result) == FALSE

\* the body of the task loop after `await this.callMageAgent(...)`, then the loop
\* up to the next request
\* a usage update that counts the calls that succeeded only
countUsageOfSuccesses(usage, result) ==
  IF result.success
  THEN [usage EXCEPT !.tokensConsumed = @ + result.tokensUsed, !.agentsUsed = @ + 1]
  ELSE usage

\* analysis.usage.tokensConsumed += result.tokensUsed; analysis.usage.agentsUsed++
countUsage(usage, result) ==
  [usage EXCEPT !.tokensConsumed = @ + result.tokensUsed, !.agentsUsed = @ + 1]

afterReply(s, cat, result) ==
  IF TaskFailureIsFatal(result) THEN Catch(s, result.error)
  ELSE
  LET prompt == Head(s.queue)
      t == [s EXCEPT
              !.analysis.usage = countUsage(@, result),
              !.previousContext = IF Chained(result)
                                  THEN (prompt.id :> Stringify(result.output)) @@ @
                                  ELSE @,
              !.results = Append(@, result),
              !.queue = Tail(@)]
  IN IF t.queue # <<>> THEN dispatch(t)
     ELSE dispatch(enterCategory([t EXCEPT !.progressBase = @ + progressPerCategory],
                                 cat, t.ci + 1))

AgentReply(j) ==
  /\ job[j].pc = "agent_call"
  /\ \E response \in Replies(Head(job[j].queue).id) :
       LET prompt == Head(job[j].queue)
           result == callMageAgent(prompt.id, categories[job[j].ci], response)
       IN /\ job' = [job EXCEPT ![j] = afterReply(job[j], catalogue, result)]
          /\ faults' = IF response = NominalReply THEN faults ELSE faults + 1
  /\ UNCHANGED <<store, clock, tempDir, catalogue, flaky, engine>>

\* ----------------------------------------------- synthesis, report, completion
\* runAnalysis after `await this.runAgents(...)`
afterAgents(s) ==
  LET t == updateStatus(s, "synthesizing", Pct(80))
      syn == synthesizeResults(t.analysis, t.primaryType, t.results)
  IN IF syn.threw THEN Catch(t, "TypeError")
     ELSE [t EXCEPT !.synthesizedResult = Some(syn.result), !.pc = "generate"]

Synthesize(j) ==
  /\ job[j].pc = "synthesize"
  /\ job' = [job EXCEPT ![j] = afterAgents(job[j])]
  /\ UNCHANGED <<store, clock, tempDir, catalogue, flaky, faults, engine>>

\* OutputGenerator.generateMarkdown: the report, or an error
generateMarkdown(result, outcome) ==
  IF outcome = "throws" THEN [threw |-> TRUE, archMd |-> ""]
  ELSE [threw |-> FALSE, archMd |-> "md"]

\* a completion that sets the status and the progress and leaves the result out
afterSynthesisWithoutResult(s, outcome) ==
  LET t == updateStatus(s, "generating", Pct(90))
      md == generateMarkdown(Val(t.synthesizedResult), outcome)
  IN IF md.threw THEN Catch(t, "generate failed")
     ELSE [SetStatus(t, "completed") EXCEPT
             !.analysis.progress = Pct(100),
             !.pc = "cache_set"]

\* runAnalysis after `await this.synthesizeResults(...)`, up to the call of
\* cacheService.set
afterSynthesis(s, outcome) ==
  LET t == updateStatus(s, "generating", Pct(90))
      md == generateMarkdown(Val(t.synthesizedResult), outcome)
  IN IF md.threw THEN Catch(t, "generate failed")
     ELSE LET synthesizedResult ==
                [Val(t.synthesizedResult) EXCEPT
                   !.archMd = md.archMd,
                   !.repositoryInfo = Some([url |-> t.request.repoUrl,
                                            branch |-> t.analysis.branch,
                                            commitHash |-> t.analysis.commitHash])]
          IN [SetStatus(t, "completed") EXCEPT
                !.synthesizedResult = Some(synthesizedResult),
                !.analysis.progress = Pct(100),
                !.analysis.result = Some(synthesizedResult),
                !.pc = "cache_set"]

Generate(j) ==
  /\ job[j].pc = "generate"
  /\ \E outcome \in {"rendered", "throws"} :
       job' = [job EXCEPT ![j] = afterSynthesis([job[j] EXCEPT !.io.report = outcome], outcome)]
  /\ UNCHANGED <<store, clock, tempDir, catalogue, flaky, faults, engine>>

\* a set() without its try/catch: an error of the store request is raised
cacheSetRaises(memories, memory, outcome) ==
  [store |-> IF outcome = "stored" THEN {m \in memories : m.id # memory.id} \cup {memory}
             ELSE memories,
   threw |-> (outcome # "stored")]

\* CacheService.set: the store after the call, and whether set raised
cacheSet(memories, memory, outcome) ==
  [store |-> IF outcome = "stored" THEN {m \in memories : m.id # memory.id} \cup {memory}
             ELSE memories,
   threw |-> FALSE]

\* runAnalysis after `await this.cacheService.set(...)`
afterCacheSet(s, set, outcome) ==
  LET t == [s EXCEPT !.io.cacheWrites = @ + 1, !.io.stored = (outcome = "stored")] IN
  IF set.threw THEN Catch(t, "Cache set failed")
  ELSE LET e == emitProgress(t) IN
       IF e.request.webhookUrl # ""
       THEN [e EXCEPT !.pc = "webhook",
                      !.pending = Some([event |-> "analysis.completed", error |-> Null])]
       ELSE Finally(e)

CacheSet(j) ==
  /\ job[j].pc = "cache_set"
  /\ \E outcome \in {"stored", "error"} :
       LET s == job[j]
           set == cacheSet(store,
                           Memory(j, s.request.repoUrl, s.analysis.branch,
                                  s.cloneResult.commitHash, Val(s.synthesizedResult), clock),
                           outcome)
       IN /\ job' = [job EXCEPT ![j] = afterCacheSet(s, set, outcome)]
          /\ store' = set.store
  /\ UNCHANGED <<clock, tempDir, catalogue, flaky, faults, engine>>

\* a callWebhook without its try/catch: an error of the POST reaches the catch
\* block of runAnalysis, which marks the job failed
callWebhookRaises(s, outcome) ==
  LET t == [s EXCEPT !.webhooks = Append(@, [event |-> Val(s.pending).event,
                                             error |-> Val(s.pending).error,
                                             delivered |-> (outcome = "delivered")]),
                     !.pending = Null]
  IN IF outcome = "delivered" THEN t ELSE failAnalysis(t, "webhook failed")

\* a callWebhook that tries a second time when the POST fails
callWebhookRetries(s, outcome) ==
  LET attempt == [event |-> Val(s.pending).event, error |-> Val(s.pending).error,
                  delivered |-> (outcome = "delivered")]
  IN [s EXCEPT !.webhooks = IF outcome = "delivered" THEN Append(@, attempt)
                            ELSE Append(Append(@, attempt), attempt),
               !.pending = Null]

\* callWebhook: one POST, its error swallowed
callWebhook(s, outcome) ==
  [s EXCEPT !.webhooks = Append(@, [event |-> Val(s.pending).event,
                                    error |-> Val(s.pending).error,
                                    delivered |-> (outcome = "delivered")]),
            !.pending = Null]

Webhook(j) ==
  /\ job[j].pc = "webhook"
  /\ \E outcome \in {"delivered", "error"} :
       job' = [job EXCEPT ![j] = Finally(callWebhook(job[j], outcome))]
  /\ UNCHANGED <<store, clock, tempDir, catalogue, flaky, faults, engine>>

\* RepoManager.cleanup in the finally block: fs.rm, its error swallowed
Cleanup(j) ==
  /\ job[j].pc = "cleanup"
  /\ \E outcome \in {"removed", "error"} :
       /\ job' = [job EXCEPT ![j].pc = "done", ![j].io.cleanups = @ + 1]
       /\ tempDir' = IF outcome = "removed" THEN tempDir \ {Val(job[j].localPath)}
                     ELSE tempDir
  /\ UNCHANGED <<store, clock, catalogue, flaky, faults, engine>>

\* time passes: one cache lifetime at a step
Tick ==
  /\ clock + CACHE_TTL_DAYS <= MaxClock
  /\ clock' = clock + CACHE_TTL_DAYS
  /\ UNCHANGED <<job, store, tempDir, catalogue, flaky, faults, engine>>

\* ------------------------------------------------------------ specifications
\* the cache is empty, or holds one result stored by an earlier run for the same
\* repository, named then by its .git url
InitialStores ==
  {{}} \cup
  { {Memory(0, DotGitUrl, "main", "c0", PriorResult, 0)} }

\* the first, one middle and the last task of the shipped plan
FlakyTasks == {"arch-overview", "security-secrets", "maintain-analysis"}

Init ==
  /\ job = [j \in Jobs |-> IdleJob]
  /\ store \in InitialStores
  /\ clock = 0
  /\ tempDir = {}
  /\ catalogue = ShippedCatalogue
  /\ flaky = FlakyTasks
  /\ faults = 0
  /\ engine = NoCall

Step(j) ==
  \/ CacheGet(j)
  \/ CloneRepository(j)
  \/ DetectType(j)
  \/ RunAgents(j)
  \/ AgentReply(j)
  \/ Synthesize(j)
  \/ Generate(j)
  \/ CacheSet(j)
  \/ Webhook(j)
  \/ Cleanup(j)

\* one job
Next ==
  \/ \E request \in Requests : StartAnalysis(1, request)
  \/ Step(1)
  \/ Tick

Spec == Init /\ [][Next]_vars

\* one job, the PromptEngine built from any of the catalogues
CatalogueRequests ==
  { Request(PlainUrl, "main", f, s, "https://hook") :
      f \in BOOLEAN, s \in {Null, Some(FALSE)} }

InitCatalogue ==
  /\ job = [j \in Jobs |-> IdleJob]
  /\ store \in InitialStores
  /\ clock = 0
  /\ tempDir = {}
  /\ catalogue \in Catalogues
  /\ flaky = {"arch-overview"}
  /\ faults = 0
  /\ engine = NoCall

NextCatalogue ==
  \/ \E request \in CatalogueRequests : StartAnalysis(1, request)
  \/ Step(1)
  \/ Tick

SpecCatalogue == InitCatalogue /\ [][NextCatalogue]_vars

\* one job on an empty cache, any call of the reasoning service may be answered
\* with a deviant reply
AgentRequests ==
  { Request(PlainUrl, "main", f, s, "https://hook") :
      f \in BOOLEAN, s \in {Null, Some(FALSE)} }

AllTasks ==
  UNION { {DEFAULT_PROMPTS[c][i].id : i \in DOMAIN DEFAULT_PROMPTS[c]} :
          c \in DOMAIN DEFAULT_PROMPTS }
  \cup {"backend-api-design", "frontend-component-analysis"}

InitAgents ==
  /\ job = [j \in Jobs |-> IdleJob]
  /\ store = {}
  /\ clock = 0
  /\ tempDir = {}
  /\ catalogue = ShippedCatalogue
  /\ flaky = AllTasks
  /\ faults = 0
  /\ engine = NoCall

NextAgents ==
  \/ \E request \in AgentRequests : StartAnalysis(1, request)
  \/ Step(1)
  \/ Tick

SpecAgents == InitAgents /\ [][NextAgents]_vars

\* several jobs one after the other on an empty cache, the reasoning service
\* giving nominal replies: a job is started once the jobs before it are over
JobRequests ==
  { Request(PlainUrl, b, f, Some(FALSE), "https://hook") :
      b \in {"", "main"}, f \in BOOLEAN }

Over(j) == job[j].pc \in {"done", "rejected"}

InitJobs ==
  /\ job = [j \in Jobs |-> IdleJob]
  /\ store = {}
  /\ clock = 0
  /\ tempDir = {}
  /\ catalogue = ShippedCatalogue
  /\ flaky = {}
  /\ faults = 0
  /\ engine = NoCall

NextJobs ==
  \/ \E j \in Jobs :
       /\ \A i \in 1..(j - 1) : Over(i)
       /\ \E request \in JobRequests : StartAnalysis(j, request)
  \/ \E j \in Jobs : Step(j)
  \/ Tick

SpecJobs == InitJobs /\ [][NextJobs]_vars

\* ------------------------------------------- the PromptEngine called on its own
\* one call of a method of the PromptEngine: the arguments, then what it returned
Call(method, args) == [method |-> method, args |-> args, returned |-> Null]

\* the tasks given to the resolver: up to MaxPrompts prompts with ids among three,
\* each requiring any of the three (itself included), in any order and with
\* repeated ids
TaskOrder == <<"A", "B", "C">>
TaskIds == {TaskOrder[i] : i \in DOMAIN TaskOrder}

DepArrays == { LET In(id) == id \in deps IN SelectSeq(TaskOrder, In) : deps \in SUBSET TaskIds }

ResolverPrompts ==
  { Prompt(id, "all", "architecture", 1, deps) : id \in TaskIds, deps \in DepArrays }

ResolverInputs == UNION { [1..n -> ResolverPrompts] : n \in 0..MaxPrompts }

\* a catalogue whose backend tasks redefine a default task, with another order, and
\* add one, and whose defaults hold a task for frontend repositories only
OverrideCatalogue ==
  [defaults |->
     [c \in {categories[i] : i \in 1..Len(categories)} |->
        IF c = "architecture"
        THEN << Prompt("arch-overview", "all", "architecture", 1, {}),
                Prompt("arch-components", "all", "architecture", 2, {"arch-overview"}),
                Prompt("frontend-routing", "frontend", "architecture", 3, {}) >>
        ELSE <<>>],
   typeSpecific |->
     [t \in {"backend"} |->
        [c \in {"architecture"} |->
           << Prompt("backend-api-design", "backend", "architecture", 4, {"arch-overview"}),
              Prompt("arch-overview", "backend", "architecture", 5, {}) >>]]]

EngineCatalogues == Catalogues \cup {OverrideCatalogue}

\* the execution contexts renderPrompt is called with: any of the files of the model
\* read or not, a tech stack detected or not, configuration files found or not, the
\* serialised outputs of arch-overview and of arch-components in the chain or not
\* what README.md may hold: any text, the text of a reference to the output of
\* arch-overview, or the text of the placeholder of the variable docs
ReadmeTexts == {"content", PreviousRef("arch-overview"), Placeholder("docs")}

PromptContexts ==
  { [repoUrl |-> Str("https://github.com/acme/app"), repoName |-> Str("acme/app"),
     branch |-> Str("main"), commitHash |-> Str("c1"), repoType |-> Str("backend"),
     techStack |-> Arr(techStack), directoryStructure |-> Str("tree"),
     fileList |-> Arr(PathOrder),
     fileContents |->
       Obj(LET Read(entry) == entry.key \in files IN
           SelectSeq([i \in DOMAIN PathOrder |->
                        Entry(PathOrder[i],
                              IF PathOrder[i] = "README.md" THEN readme ELSE "content")],
                     Read)),
     previousContext |-> previousContext,
     configFiles |-> Obj(configFiles)] :
      files \in SUBSET {PathOrder[i] : i \in DOMAIN PathOrder},
      readme \in ReadmeTexts,
      techStack \in {<<>>, <<"typescript", "node">>},
      configFiles \in {<<>>, <<Entry("package.json", "content")>>},
      previousContext \in { [id \in ids |-> "json"] :
                               ids \in SUBSET {"arch-overview", "arch-components"} } }

InitEngine ==
  /\ job = [j \in Jobs |-> IdleJob]
  /\ store = {}
  /\ clock = 0
  /\ tempDir = {}
  /\ flaky = {}
  /\ faults = 0
  /\ \/ /\ catalogue = ShippedCatalogue
        /\ \E prompts \in ResolverInputs :
             engine = Call("resolvePromptDependencies", [prompts |-> prompts])
     \/ /\ catalogue \in EngineCatalogues
        /\ \E repoType \in RepositoryType, i \in DOMAIN categories :
             engine = Call("getPrompts", [repoType |-> repoType, category |-> categories[i]])
     \/ /\ catalogue = ShippedCatalogue
        /\ \E promptId \in AllTasks, context \in PromptContexts :
             engine = Call("renderPrompt", [promptId |-> promptId, context |-> context])

ResolvePromptDependencies ==
  /\ engine.method = "resolvePromptDependencies"
  /\ engine.returned = Null
  /\ engine' = [engine EXCEPT !.returned = Some(resolvePromptDependencies(engine.args.prompts))]
  /\ UNCHANGED <<job, store, clock, tempDir, catalogue, flaky, faults>>

GetPrompts ==
  /\ engine.method = "getPrompts"
  /\ engine.returned = Null
  /\ engine' = [engine EXCEPT !.returned =
                  Some(getPrompts(catalogue, engine.args.repoType, engine.args.category))]
  /\ UNCHANGED <<job, store, clock, tempDir, catalogue, flaky, faults>>

RenderPrompt ==
  /\ engine.method = "renderPrompt"
  /\ engine.returned = Null
  /\ engine' = [engine EXCEPT !.returned =
                  Some(renderPromptContent(engine.args.promptId, engine.args.context))]
  /\ UNCHANGED <<job, store, clock, tempDir, catalogue, flaky, faults>>

NextEngine ==
  \/ ResolvePromptDependencies
  \/ GetPrompts
  \/ RenderPrompt

SpecEngine == InitEngine /\ [][NextEngine]_vars

\* -------------------------------------------- the type detector on its own
\* the greatest number of packages of a directory of packages
MaxPackages == 2

\* the dependencies package.json names, and the states of the manifest
NpmDependencies == {"react", "react-native", "express", "@nestjs/core", "fastify"}

PackageJsons ==
  {Unreadable, Malformed}
    \cup {Manifest(deps, exports) : deps \in SUBSET NpmDependencies, exports \in BOOLEAN}

GoMods == {Manifest({}, FALSE), Manifest({"github.com/gin-gonic/gin"}, FALSE)}

\* the function that maps the names of a sequence of pairs <<name, value>> to
\* their values
Named(pairs) ==
  [name \in {pairs[i][1] : i \in DOMAIN pairs} |->
     pairs[CHOOSE i \in DOMAIN pairs : pairs[i][1] = name][2]]

\* the pairs of a sequence of optional pairs that are there
Present(options) == Flatten(options)

\* checkouts without packages: main.tf, go.mod, package.json, lib/index.ts,
\* ios/app.swift, android/main.kt, each there or not
PlainRepositories ==
  { Dir(Named(Present(<< IF tf THEN <<<<"main.tf", PlainFile>>>> ELSE <<>>,
                          goMod, packageJson >>)),
        Named(Present(<< IF lib THEN <<<<"lib", Dir(Named(<<<<"index.ts", PlainFile>>>>), <<>>)>>>>
                         ELSE <<>>,
                         IF ios THEN <<<<"ios", Dir(Named(<<<<"app.swift", PlainFile>>>>), <<>>)>>>>
                         ELSE <<>>,
                         IF android
                         THEN <<<<"android", Dir(Named(<<<<"main.kt", PlainFile>>>>), <<>>)>>>>
                         ELSE <<>> >>))) :
      tf \in BOOLEAN, lib \in BOOLEAN, ios \in BOOLEAN, android \in BOOLEAN,
      goMod \in {<<>>} \cup {<<<<"go.mod", c>>>> : c \in GoMods},
      packageJson \in {<<>>} \cup {<<<<"package.json", c>>>> : c \in PackageJsons} }

\* the packages of the monorepos: a web application, a service, documentation
\* only, a terraform module and a package that is a monorepo itself
WebPackage == Dir(Named(<<<<"package.json", Manifest({"react"}, FALSE)>>>>), <<>>)
ServicePackage ==
  Dir(Named(<<<<"go.mod", Manifest({"github.com/gin-gonic/gin"}, FALSE)>>>>), <<>>)
DocsPackage == Dir(Named(<<<<"readme.md", PlainFile>>>>), <<>>)
InfraPackage == Dir(Named(<<<<"main.tf", PlainFile>>>>), <<>>)
NestedMonorepo == Dir(<<>>, Named(<<<<"packages", Dir(<<>>, Named(<<<<"web", WebPackage>>>>))>>>>))

Packages == {WebPackage, ServicePackage, DocsPackage, InfraPackage, NestedMonorepo}

PackageNames == <<"p1", "p2", "p3", "p4">>

\* the directories of packages: up to MaxPackages packages
ListsOf(kinds) ==
  UNION { { Dir(<<>>, [name \in {PackageNames[i] : i \in 1..n} |->
                        packages[CHOOSE i \in 1..n : PackageNames[i] = name]]) :
            packages \in [1..n -> kinds] } : n \in 0..MaxPackages }

PackageLists == ListsOf(Packages)

\* checkouts with one directory of packages, or with packages/ and a libs/ of
\* services and monorepos, with or without a package.json that names lerna
Monorepos ==
  { Dir(Named(Present(<<packageJson>>)), dirs) :
      packageJson \in {<<>>, <<<<"package.json", Manifest({"lerna"}, FALSE)>>>>},
      dirs \in { Named(<<<<dir, list>>>>) :
                   dir \in {packageDirs[i] : i \in DOMAIN packageDirs},
                   list \in PackageLists }
               \cup { Named(<< <<"packages", list>>, <<"libs", other>> >>) :
                        list \in PackageLists,
                        other \in ListsOf({ServicePackage, NestedMonorepo}) } }

Repositories == PlainRepositories \cup Monorepos

InitDetector ==
  /\ job = [j \in Jobs |-> IdleJob]
  /\ store = {}
  /\ clock = 0
  /\ tempDir = {}
  /\ flaky = {}
  /\ faults = 0
  /\ catalogue = ShippedCatalogue
  /\ \E tree \in Repositories : engine = Call("detect", [localPath |-> tree])

\* runAnalysis, detecting stage: getDirectoryStructure, getFiles, detect, on the
\* checkout the call is given
Detect ==
  /\ engine.method = "detect"
  /\ engine.returned = Null
  /\ engine' = [engine EXCEPT !.returned =
                  Some(detect(engine.args.localPath,
                              getDirectoryStructure(engine.args.localPath, DefaultDepth),
                              getFiles(engine.args.localPath)))]
  /\ UNCHANGED <<job, store, clock, tempDir, catalogue, flaky, faults>>

NextDetector == Detect

SpecDetector == InitDetector /\ [][NextDetector]_vars

\* ------------------------------------------------------- POST /analyze/batch
\* the largest batch the route accepts
maxBatchSize == 10

\* the largest batch whose jobs are followed to their end
MaxBatch == 6

BatchJobs == 1..MaxBatch

Repo(url, branch) == [url |-> url, branch |-> branch]

\* the request the route builds for one repository of the batch; an omitted
\* option reaches startAnalysis as an omitted property
batchRequest(repo, options) ==
  Request(repo.url, repo.branch, options.force, options.includeSecurityScan,
          options.webhookUrl)

Response(status, code, totalCount) ==
  [status |-> status, code |-> code, totalCount |-> totalCount]

\* the loop over body.repositories from its i-th turn on: every turn builds an
\* orchestrator and awaits its startAnalysis, which registers the job, starts
\* its run in the background and returns; an error raised by startAnalysis
\* leaves the loop for the catch clause
RECURSIVE startAll(_, _, _)
startAll(jobs, body, i) ==
  IF i > Len(body.repositories)
  THEN [job |-> jobs, response |-> Response(202, "", Len(body.repositories))]
  ELSE
    LET started == startAnalysis(jobs[i], batchRequest(body.repositories[i], body.options))
    IN IF started.pc = "rejected"
       THEN [job |-> [jobs EXCEPT ![i] = started],
             response |-> Response(500, "BATCH_ANALYSIS_FAILED", 0)]
       ELSE startAll([jobs EXCEPT ![i] = started], body, i + 1)

analyzeBatch(jobs, body) ==
  IF Len(body.repositories) = 0
  THEN [job |-> jobs, response |-> Response(400, "MISSING_REPOSITORIES", 0)]
  ELSE IF Len(body.repositories) > maxBatchSize
  THEN [job |-> jobs, response |-> Response(400, "BATCH_SIZE_EXCEEDED", 0)]
  ELSE startAll(jobs, body, 1)

\* the handler of the route: no turn of its loop waits for anything but
\* startAnalysis, which returns before any external call of a job is answered
AnalyzeBatch ==
  /\ engine.method = "analyzeBatch"
  /\ engine.returned = Null
  /\ \A out \in {analyzeBatch(job, engine.args)} :
       /\ job' = out.job
       /\ engine' = [engine EXCEPT !.returned = Some(out.response)]
  /\ UNCHANGED <<store, clock, tempDir, catalogue, flaky, faults>>

\* one batch request on an empty cache, the reasoning service giving nominal
\* replies: up to MaxBatch repositories, a batch with an unsupported url in
\* its second place, and a batch of one repository more than the route accepts.
\* The external calls of the first NumJobs jobs are answered; those of the
\* later jobs of the batch are still in flight
BatchOptions ==
  { [force |-> f, includeSecurityScan |-> Some(FALSE), webhookUrl |-> "https://hook"] :
      f \in BOOLEAN }

Batches ==
  { [n \in 1..k |-> Repo(PlainUrl, "main")] : k \in 0..MaxBatch }
  \cup { <<Repo(PlainUrl, "main"), Repo(ForeignUrl, "main")>> }
  \cup { [n \in 1..(maxBatchSize + 1) |-> Repo(PlainUrl, "main")] }

InitBatch ==
  /\ job = [j \in BatchJobs |-> IdleJob]
  /\ store = {}
  /\ clock = 0
  /\ tempDir = {}
  /\ catalogue = ShippedCatalogue
  /\ flaky = {}
  /\ faults = 0
  /\ \E repositories \in Batches, options \in BatchOptions :
       engine = Call("analyzeBatch", [repositories |-> repositories, options |-> options])

NextBatch ==
  \/ AnalyzeBatch
  \/ \E j \in Jobs : Step(j)

SpecBatch == InitBatch /\ [][NextBatch]_vars

\* ------------------------------------------------ DELETE /analysis/:analysisId
\* the one operation of the routes that names a job a caller has started:
\* deleteAnalysis writes a log line, the route answers deleted: true; neither
\* reaches the orchestrator that runs the job
DeleteAnalysis(j) ==
  /\ engine = NoCall
  /\ job[j].pc # "idle"
  /\ engine' = [Call("deleteAnalysis", [analysisId |-> j])
                  EXCEPT !.returned = Some([deleted |-> TRUE])]
  /\ UNCHANGED <<job, store, clock, tempDir, catalogue, flaky, faults>>

\* one job on an empty cache, the reasoning service giving nominal replies; the
\* caller may ask once, at any moment after the start, for the job to be dropped
InitCancel ==
  /\ job = [j \in Jobs |-> IdleJob]
  /\ store = {}
  /\ clock = 0
  /\ tempDir = {}
  /\ catalogue = ShippedCatalogue
  /\ flaky = {}
  /\ faults = 0
  /\ engine = NoCall

NextCancel ==
  \/ \E request \in JobRequests : StartAnalysis(1, request)
  \/ Step(1)
  \/ DeleteAnalysis(1)

SpecCancel == InitCancel /\ [][NextCancel]_vars

\* ------------------------------------------- several jobs on one orchestrator
\* getAnalysis(analysisId)
getAnalysis(analysisId) ==
  IF analysisId \in DOMAIN activeAnalyses THEN Some(activeAnalyses[analysisId]) ELSE Null

\* jobs started at any moment on an empty cache and run side by side, the
\* PromptEngine built from a catalogue of two tasks of which the second depends
\* on the first.  The first job looks its repository up in the cache and names
\* a webhook; the later ones are forced and may name an unsupported url
ConcurrentRequests(j) ==
  IF j = 1
  THEN { Request(PlainUrl, "main", FALSE, Some(FALSE), "https://hook") }
  ELSE { Request(u, "main", TRUE, Some(FALSE), "") : u \in RepoUrls }

InitConcurrent ==
  /\ job = [j \in Jobs |-> IdleJob]
  /\ store = {}
  /\ clock = 0
  /\ tempDir = {}
  /\ catalogue = ConsistentCatalogue
  /\ flaky = {}
  /\ faults = 0
  /\ engine = NoCall

NextConcurrent ==
  \/ \E j \in Jobs : \E request \in ConcurrentRequests(j) : StartAnalysis(j, request)
  \/ \E j \in Jobs : Step(j)

SpecConcurrent == InitConcurrent /\ [][NextConcurrent]_vars

\* ------------------------------------------- every external call is answered
\* one job; every call it is waiting for (cache, clone, file access, reasoning
\* service, notification, removal of the checkout) is answered in the end, with a
\* result, an error or a timeout
LiveRequests ==
  { Request(PlainUrl, "main", f, s, "https://hook") :
      f \in BOOLEAN, s \in {Null, Some(FALSE)} }

InitLive ==
  /\ job = [j \in Jobs |-> IdleJob]
  /\ store \in InitialStores
  /\ clock = 0
  /\ tempDir = {}
  /\ catalogue = ShippedCatalogue
  /\ flaky = FlakyTasks
  /\ faults = 0
  /\ engine = NoCall

NextLive ==
  \/ \E request \in LiveRequests : StartAnalysis(1, request)
  \/ Step(1)

\* the job is waiting for the answer of an external call: a step of it is enabled
Waiting(j) == job[j].pc \notin {"idle", "rejected", "done"}

\* weak fairness of the steps of the job, WF_vars(Step(1)), with the enabling
\* condition of a step written out
Answered == []<>(~Waiting(1)) \/ []<><<Step(1)>>_vars

SpecLive == InitLive /\ [][NextLive]_vars /\ Answered

\* ------------------------------------------------ the security scan on and off
\* an earlier run that included the security scan left its result in the cache
PriorSecurityResult == [PriorResult EXCEPT !.securityFindings = Some(<<>>)]

\* one job, the security scan asked for, declined or not mentioned, on an empty
\* cache or on one that holds the result of an earlier run with the scan
SecurityRequests ==
  { Request(PlainUrl, "main", f, s, "https://hook") :
      f \in BOOLEAN, s \in {Null, Some(TRUE), Some(FALSE)} }

InitSecurity ==
  /\ job = [j \in Jobs |-> IdleJob]
  /\ store \in {{}, {Memory(0, PlainUrl, "main", "c0", PriorSecurityResult, 0)}}
  /\ clock = 0
  /\ tempDir = {}
  /\ catalogue = ShippedCatalogue
  /\ flaky = {}
  /\ faults = 0
  /\ engine = NoCall

NextSecurity ==
  \/ \E request \in SecurityRequests : StartAnalysis(1, request)
  \/ Step(1)

SpecSecurity == InitSecurity /\ [][NextSecurity]_vars

\* ---------------------------------------------------------------- properties
\* AnalysisStatus, in pipeline order
StageOrder ==
  <<"queued", "cloning", "detecting", "analyzing", "synthesizing", "generating", "completed">>

Terminal == {"completed", "failed"}

IsNextStage(a, b) ==
  \E i \in 1..(Len(StageOrder) - 1) : StageOrder[i] = a /\ StageOrder[i + 1] = b

\* C1: every change of a job's status is one step forward along queued -> cloning ->
\* detecting -> analyzing -> synthesizing -> generating -> completed, or a move to
\* failed from a non-terminal status; the only skip is queued -> completed on a
\* cache hit.  (statusLog holds every value assigned to analysis.status.)
C1_StatusStepsForward ==
  \A j \in Jobs :
    LET log == job[j].statusLog IN
    /\ log # <<>> => log[1] = "queued"
    /\ \A i \in 1..(Len(log) - 1) :
         log[i] # log[i + 1] =>
           \/ IsNextStage(log[i], log[i + 1])
           \/ log[i + 1] = "failed" /\ log[i] \notin Terminal
           \/ /\ log[i] = "queued" /\ log[i + 1] = "completed"
              /\ job[j].analysis.usage.cacheHit

\* a job went through every stage and is over, its cache write refused
C1_Witness ==
  \E j \in Jobs :
    /\ job[j].pc = "done"
    /\ job[j].statusLog[Len(job[j].statusLog)] = "completed"
    /\ ~job[j].analysis.usage.cacheHit
    /\ job[j].io.cacheWrites = 1 /\ ~job[j].io.stored

\* C2: once a job's status is completed or failed, no step changes its status,
\* progress, result, errorMessage or usage.
C2_TerminalIsImmutable ==
  [][\A j \in Jobs :
       job[j].analysis.status \in Terminal =>
         /\ job'[j].analysis.status = job[j].analysis.status
         /\ job'[j].analysis.progress = job[j].analysis.progress
         /\ job'[j].analysis.result = job[j].analysis.result
         /\ job'[j].analysis.errorMessage = job[j].analysis.errorMessage
         /\ job'[j].analysis.usage = job[j].analysis.usage]_vars

\* a completed job whose cache write and notification both failed, and whose
\* checkout has been cleaned up: three steps after completion
C2_Witness ==
  \E j \in Jobs :
    /\ job[j].pc = "done"
    /\ job[j].analysis.status = "completed"
    /\ job[j].io.cacheWrites = 1 /\ ~job[j].io.stored
    /\ Len(job[j].webhooks) = 1 /\ ~job[j].webhooks[1].delivered
    /\ job[j].io.cleanups = 1

InLog(s, status) == \E i \in DOMAIN s.statusLog : s.statusLog[i] = status

\* the plan of a job whose repository has been classified
Plan(s) == PlanFrom(catalogue, s.primaryType, s.analysis.includeSecurity, 1)

\* C3: startAnalysis returns the job while its status is still queued and its
\* progress 0, for every valid request; no stage transition precedes the return.
C3_ReturnsQueued ==
  \A j \in Jobs :
    IsSome(job[j].returned) =>
      /\ Val(job[j].returned).status = "queued"
      /\ Val(job[j].returned).progress = 0

\* C4: when the clone fails (git error or timeout) the job is failed with an error
\* message, never has status detecting, analyzing, synthesizing, generating or
\* completed, and no task is dispatched for it.
C4_CloneFailureFails ==
  \A j \in Jobs :
    job[j].io.clone \in {"error", "timeout"} =>
      /\ job[j].analysis.status = "failed"
      /\ IsSome(job[j].analysis.errorMessage)
      /\ \A i \in DOMAIN job[j].statusLog :
           job[j].statusLog[i] \in {"queued", "cloning", "failed"}
      /\ job[j].calls = <<>>
      /\ job[j].results = <<>>

\* a job whose clone timed out is over
C4_Witness ==
  \E j \in Jobs :
    /\ job[j].io.clone = "timeout"
    /\ job[j].pc = "done"
    /\ job[j].statusLog = <<"queued", "cloning", "failed">>

\* the errors of the stages themselves, as the catch block of runAnalysis gets them
StageErrors == {"Failed to clone repository", "detect failed", "TypeError", "generate failed"}

Succeeded(result) == result.success
GaveOutput(result) == result.success /\ IsSome(result.output)

\* the ids of the tasks among results[1..n] that succeeded, and of those that
\* succeeded with an output
SucceededIds(results, n) == {results[i].taskId : i \in {k \in 1..n : Succeeded(results[k])}}
OutputIds(results, n) == {results[i].taskId : i \in {k \in 1..n : GaveOutput(results[k])}}

\* C6 (as stated): at every point the chain holds exactly the outputs of the tasks
\* that have finished successfully, and each task was rendered with exactly the
\* outputs of the successful tasks before it.
C6_ChainHoldsSuccesses ==
  \A j \in Jobs :
    LET s == job[j] IN
    /\ DOMAIN s.previousContext = SucceededIds(s.results, Len(s.results))
    /\ \A k \in DOMAIN s.calls :
         DOMAIN s.calls[k].chain = SucceededIds(s.results, k - 1)

\* C6 (amended): at every point the chain holds exactly the serialised outputs of
\* the tasks that have finished successfully with an output (a successful call
\* whose body is not an object gives no output and is left out), and each task was
\* rendered with exactly the outputs of such tasks before it.
C6_ChainHoldsOutputs ==
  \A j \in Jobs :
    LET s == job[j] IN
    /\ DOMAIN s.previousContext = OutputIds(s.results, Len(s.results))
    /\ \A i \in DOMAIN s.results :
         GaveOutput(s.results[i]) =>
           s.previousContext[s.results[i].taskId] = Stringify(s.results[i].output)
    /\ \A k \in DOMAIN s.calls :
         /\ DOMAIN s.calls[k].chain = OutputIds(s.results, k - 1)
         /\ \A i \in 1..(k - 1) :
              GaveOutput(s.results[i]) =>
                s.calls[k].chain[s.results[i].taskId] = Stringify(s.results[i].output)

\* a task is being called after one task before it succeeded with an output, one
\* succeeded without, and the chain it was rendered with holds the first only
C6_Witness ==
  \E j \in Jobs :
    LET s == job[j] IN
    /\ s.pc = "agent_call"
    /\ \E a, b \in DOMAIN s.results :
         /\ GaveOutput(s.results[a])
         /\ s.results[b].success /\ ~IsSome(s.results[b].output)
         /\ s.results[a].taskId \in DOMAIN s.calls[Len(s.calls)].chain
         /\ s.results[b].taskId \notin DOMAIN s.calls[Len(s.calls)].chain

\* the results a parser can read without raising
WellFormed(result) ==
  GaveOutput(result) => ~Raises(Val(result.output), result.type)

\* C7: the synthesized result is built from successful results only: when exactly
\* one task failed (the other replies being well formed) synthesis does not fail,
\* the findings, security findings, architecture and recommendations are those
\* synthesizeResults gives for the successful results alone, and every finding and
\* recommendation comes from a successful task.
C7_SynthesisFromSuccesses ==
  \A j \in Jobs :
    LET s == job[j]
        failed == {i \in DOMAIN s.results : ~s.results[i].success}
        alone == synthesizeResults(s.analysis, s.primaryType,
                                   SelectSeq(s.results, Succeeded)).result
        ok == SucceededIds(s.results, Len(s.results))
    IN
    /\ (InLog(s, "synthesizing") /\ Cardinality(failed) = 1
          /\ \A i \in DOMAIN s.results : WellFormed(s.results[i])) =>
         /\ IsSome(s.synthesizedResult)
         /\ s.analysis.errorMessage # Some("TypeError")
    /\ IsSome(s.synthesizedResult) =>
         LET r == Val(s.synthesizedResult) IN
         /\ r.findings = alone.findings
         /\ r.securityFindings = alone.securityFindings
         /\ r.architecture = alone.architecture
         /\ r.recommendations = alone.recommendations
         /\ \A i \in DOMAIN r.findings : r.findings[i].agentType \in ok
         /\ IsSome(r.securityFindings) =>
              \A i \in DOMAIN Val(r.securityFindings) :
                Val(r.securityFindings)[i].agentType \in ok
         /\ \A i \in DOMAIN r.recommendations :
              \E k \in DOMAIN s.results :
                s.results[k].success /\ s.results[k].type = r.recommendations[i].category
    /\ (s.analysis.status = "completed" /\ ~s.analysis.usage.cacheHit) =>
         s.analysis.result = s.synthesizedResult

\* a job is completed with exactly one failed task, a security one, and its result
\* holds the security findings of the two others
C7_Witness ==
  \E j \in Jobs :
    LET s == job[j] IN
    /\ s.pc = "done"
    /\ s.analysis.status = "completed"
    /\ Cardinality({i \in DOMAIN s.results : ~s.results[i].success}) = 1
    /\ \E i \in DOMAIN s.results : ~s.results[i].success /\ s.results[i].type = "security"
    /\ IsSome(Val(s.analysis.result).securityFindings)
    /\ Len(Val(Val(s.analysis.result).securityFindings)) = 2

\* the cache lookup of the job was answered with an entry that had not expired
ReadUnexpired(s) ==
  /\ s.io.cacheRead = "served"
  /\ s.io.recalled # <<>>
  /\ s.io.recalled[1].content.expiresAt > s.io.readAt

\* C9: without force, a lookup answered with an unexpired entry takes the job
\* straight from queued to completed with progress 100, the cached result and
\* usage.cacheHit, and the job clones nothing, classifies nothing, dispatches no
\* task and writes nothing to the cache; with force the cache is never read.
C9_CacheHitShortCircuits ==
  \A j \in Jobs :
    LET s == job[j] IN
    /\ ReadUnexpired(s) =>
         /\ s.statusLog = <<"queued", "completed">>
         /\ s.analysis.status = "completed"
         /\ s.analysis.progress = Pct(100)
         /\ s.analysis.result = Some(s.io.recalled[1].content.result)
         /\ s.analysis.usage.cacheHit
         /\ s.io.clones = 0
         /\ s.calls = <<>>
         /\ s.io.cacheWrites = 0
         /\ s.pc = "done"
    /\ s.request.force => s.io.cacheReads = 0

\* a job was served from the cache an entry that an earlier run had stored under
\* the .git url of the repository
C9_Witness ==
  \E j \in Jobs :
    /\ ReadUnexpired(job[j])
    /\ job[j].analysis.usage.cacheHit
    /\ job[j].io.recalled[1].content.repoUrl = DotGitUrl
    /\ job[j].request.repoUrl = PlainUrl

\* one task at a time: every call but the one in flight has its result recorded,
\* call and result in the same order
OneAtATime(s) ==
  /\ Len(s.calls) = Len(s.results) + (IF s.pc = "agent_call" THEN 1 ELSE 0)
  /\ \A i \in DOMAIN s.results : s.calls[i].taskId = s.results[i].taskId

\* every task was rendered after the result of each of its dependencies among the
\* tasks of the job had been recorded
RenderedAfterDependencies(s) ==
  \A plan \in {Plan(s)} :
    \A k \in DOMAIN s.calls :
      \A dep \in s.calls[k].contextRequired \cap {plan[i].id : i \in DOMAIN plan} :
        \E i \in 1..(k - 1) : i <= Len(s.results) /\ s.results[i].taskId = dep

CategoryIndex(category) == CHOOSE i \in 1..Len(categories) : categories[i] = category

\* the tasks a catalogue gives a repository type
TasksOf(cat, repoType) ==
  UNION { UNION { {prompts[k] : k \in DOMAIN prompts} :
                  prompts \in {getPrompts(cat, repoType, categories[i])} } :
          i \in 1..Len(categories) }

\* the order hints agree with the dependencies: a dependency sits in an earlier
\* category, or in the same category with a smaller order
HintsRespectDependencies(cat, repoType) ==
  \A p, q \in TasksOf(cat, repoType) :
    q.id \in p.contextRequired =>
      \/ CategoryIndex(q.category) < CategoryIndex(p.category)
      \/ q.category = p.category /\ q.order < p.order

ShippedHintsAgree ==
  \A t \in RepositoryType : HintsRespectDependencies(ShippedCatalogue, t)

C10_SecondRunHitsCache ==
  \A i, j \in Jobs :
    ( /\ i < j
      /\ job[i].analysis.status = "completed"
      /\ ~job[i].analysis.usage.cacheHit
      /\ job[i].io.stored
      /\ Over(j)
      /\ ~job[j].request.force
      /\ NormalizeUrl(job[j].request.repoUrl) = NormalizeUrl(job[i].request.repoUrl)
      /\ job[j].request.branch = job[i].request.branch
      /\ job[j].io.cacheRead = "served"
      /\ \E m \in store : m.id = i /\ m.content.expiresAt > job[j].io.readAt )
    => /\ job[j].analysis.usage.cacheHit
       /\ job[j].analysis.result = job[i].analysis.result
       /\ job[j].io.clones = 0

\* the positions of runAnalysis at which the checkout is read, or is still to be read
ReadsCheckout == {"detect", "agents", "agent_call", "synthesize", "generate"}

\* C11: the checkout of a job whose clone succeeded is released (repoManager.cleanup
\* of the cloned path) exactly once on every exit path, and only once the job has
\* reached a terminal status, after every stage that reads it; while a stage may
\* read the checkout it exists; a job without a checkout never calls cleanup.
C11_CheckoutReleasedOnce ==
  \A j \in Jobs :
    LET s == job[j] IN
    /\ s.io.cleanups <= 1
    /\ s.io.clone # "cloned" => s.io.cleanups = 0 /\ s.localPath = Null
    /\ (s.pc = "done" /\ s.io.clone = "cloned") =>
         s.io.cleanups = 1 /\ s.localPath = Some(j)
    /\ s.io.cleanups = 1 => s.pc = "done"
    /\ s.pc = "cleanup" => s.analysis.status \in Terminal /\ s.pending = Null
    /\ s.pc \in ReadsCheckout => j \in tempDir /\ s.io.cleanups = 0

\* a job that failed in the generating stage and whose failure notification was
\* not delivered has had its checkout cleaned up
C11_Witness ==
  \E j \in Jobs :
    /\ job[j].pc = "done"
    /\ job[j].io.cleanups = 1
    /\ job[j].analysis.errorMessage = Some("generate failed")
    /\ Len(job[j].webhooks) = 1 /\ ~job[j].webhooks[1].delivered

\* the error a stage of the job raised, if one did: the classifier or one of the
\* reads before it, a parser of synthesizeResults, or generateMarkdown
StageRaised(s) ==
  IF s.io.detect = "throws" THEN Some([stage |-> "detecting", message |-> "detect failed"])
  ELSE IF InLog(s, "synthesizing")
          /\ synthesizeResults(s.analysis, s.primaryType, s.results).threw
  THEN Some([stage |-> "synthesizing", message |-> "TypeError"])
  ELSE IF s.io.report = "throws"
  THEN Some([stage |-> "generating", message |-> "generate failed"])
  ELSE Null

\* C12: an error raised in the detecting, synthesizing or generating stage moves
\* the job to failed with the message of the error; failed is the status that
\* follows the stage (no later stage is entered), the job has no result and nothing
\* is written to the cache for it; after an error of the detecting stage no task is
\* dispatched.
C12_StageErrorFails ==
  \A j \in Jobs :
    LET s == job[j]
        n == Len(s.statusLog)
    IN \A raised \in {StageRaised(s)} :
         IsSome(raised) =>
           /\ s.analysis.status = "failed"
           /\ s.analysis.errorMessage = Some(Val(raised).message)
           /\ n >= 2 /\ s.statusLog[n] = "failed" /\ s.statusLog[n - 1] = Val(raised).stage
           /\ s.analysis.result = Null
           /\ s.io.cacheWrites = 0
           /\ \A m \in store : m.id # j
           /\ Val(raised).stage = "detecting" => s.calls = <<>>
           /\ Val(raised).stage # "generating" => s.io.report = "none"

\* a job is over whose synthesis raised on a malformed reply of the reasoning service
C12_Witness ==
  \E j \in Jobs :
    /\ job[j].pc = "done"
    /\ StageRaised(job[j]) = Some([stage |-> "synthesizing", message |-> "TypeError"])
    /\ job[j].io.cleanups = 1

\* every stage of the job has succeeded: clone, classification, synthesis, report
StagesSucceeded(s) ==
  /\ s.io.clone = "cloned"
  /\ s.io.detect \in DetectedTypes
  /\ s.io.report = "rendered"

\* C13: a failure of the cache read, of the cache write or of the notification
\* never changes the outcome of a job: after a failed cache read the job is not
\* served from the cache and not failed by it, it goes on to cloning; a job whose
\* stages all succeeded is completed with the synthesized result and no error
\* message, and stays so whether the cache write and the notification succeed or fail.
C13_BestEffortCallsAreHarmless ==
  \A j \in Jobs :
    LET s == job[j] IN
    /\ s.io.cacheRead = "error" =>
         /\ ~s.analysis.usage.cacheHit
         /\ Len(s.statusLog) >= 2 /\ s.statusLog[2] = "cloning"
         /\ s.io.clones = 1 \/ s.pc = "clone"
         /\ s.analysis.errorMessage # Some("Cache get failed")
    /\ StagesSucceeded(s) =>
         /\ s.analysis.status = "completed"
         /\ s.analysis.progress = Pct(100)
         /\ IsSome(s.analysis.result) /\ s.analysis.result = s.synthesizedResult
         /\ s.analysis.errorMessage = Null
         /\ s.statusLog[Len(s.statusLog)] = "completed"

\* a job whose cache read, cache write and notification all failed is over and
\* completed with its result
C13_Witness ==
  \E j \in Jobs :
    /\ job[j].pc = "done"
    /\ job[j].io.cacheRead = "error"
    /\ job[j].io.cacheWrites = 1 /\ ~job[j].io.stored
    /\ Len(job[j].webhooks) = 1 /\ ~job[j].webhooks[1].delivered
    /\ job[j].analysis.status = "completed"
    /\ IsSome(job[j].analysis.result)

\* the notification attempts of a job that carry an event
Notified(s, event) == {i \in DOMAIN s.webhooks : s.webhooks[i].event = event}

\* C14 (as stated): every job that has a webhookUrl and reaches completed gets a
\* notification attempt with event analysis.completed, and every such job that
\* reaches failed gets one with event analysis.failed carrying the error message,
\* on every path to a terminal status, the cache-hit path included.  (Checked when
\* runAnalysis has returned.)
C14_TerminalIsNotified ==
  \A j \in Jobs :
    LET s == job[j] IN
    (s.pc = "done" /\ s.request.webhookUrl # "") =>
      /\ s.analysis.status = "completed" => Notified(s, "analysis.completed") # {}
      /\ s.analysis.status = "failed" =>
           \E i \in Notified(s, "analysis.failed") :
             s.webhooks[i].error = s.analysis.errorMessage

\* C15: for each job at most one notification delivery attempt is made in total:
\* never a completed and a failed event for the same job, no second attempt after
\* a failed delivery; an attempt is made only for a job that has a webhookUrl and
\* its event is that of the job's terminal status.
C15_AtMostOneNotification ==
  \A j \in Jobs :
    LET s == job[j] IN
    /\ Len(s.webhooks) <= 1
    /\ Len(s.webhooks) + (IF IsSome(s.pending) THEN 1 ELSE 0) <= 1
    /\ s.webhooks # <<>> =>
         /\ s.request.webhookUrl # ""
         /\ s.webhooks[1].event =
              (IF s.analysis.status = "completed" THEN "analysis.completed"
               ELSE "analysis.failed")
         /\ s.analysis.status \in Terminal

\* a failed job is over after its one notification attempt, which was not delivered
C15_Witness ==
  \E j \in Jobs :
    /\ job[j].pc = "done"
    /\ job[j].analysis.status = "failed"
    /\ job[j].webhooks # <<>>
    /\ ~job[j].webhooks[Len(job[j].webhooks)].delivered
    /\ job[j].webhooks[1].event = "analysis.failed"

\* C16: the progress of a job never decreases and always lies between 0 and 100:
\* the progress events emitted for the job carry values between 0 and 100 that
\* never decrease, and the progress stored in the job lies between 0 and 100 and is
\* not below that of the last event.  (Every assignment to analysis.progress is
\* followed by an event or is the value of the current state.)
C16_ProgressMonotone ==
  \A j \in Jobs :
    LET s == job[j]
        e == s.emitted
    IN /\ \A i \in DOMAIN e : 0 <= e[i].progress /\ e[i].progress <= Pct(100)
       /\ \A i \in 1..(Len(e) - 1) : e[i].progress <= e[i + 1].progress
       /\ 0 <= s.analysis.progress /\ s.analysis.progress <= Pct(100)
       /\ e # <<>> => e[Len(e)].progress <= s.analysis.progress

\* a job with the security category skipped went through the five other categories
\* of the shipped catalogue, the last one entered at 30 + 4 * 50/6, and is completed
C16_Witness ==
  \E j \in Jobs :
    LET s == job[j] IN
    /\ s.pc = "done"
    /\ s.analysis.status = "completed"
    /\ ~s.analysis.includeSecurity
    /\ catalogue = ShippedCatalogue
    /\ \E i \in DOMAIN s.emitted :
         /\ s.emitted[i].status = "analyzing"
         /\ s.emitted[i].progress = Pct(30) + 4 * progressPerCategory
         /\ s.emitted[i + 1].status = "synthesizing"
    /\ s.emitted[Len(s.emitted)].progress = Pct(100)

\* the ids of a list of prompts
IdsOf(prompts) == {prompts[i].id : i \in DOMAIN prompts}

\* the ids a prompt requires, for a contextRequired given as an array
Requires(prompt) == {prompt.contextRequired[i] : i \in DOMAIN prompt.contextRequired}

\* the dependency links between the tasks given: <<a, b>> when a requires b
Links(prompts) ==
  LET promptMap == promptMapOf(prompts) IN
  {<<a, b>> \in (DOMAIN promptMap) \X (DOMAIN promptMap) : b \in Requires(promptMap[a])}

\* no cycle among the links: every non-empty set of ids holds an id that requires
\* none of the set (a cycle would be a set each member of which requires a member)
Acyclic(prompts) ==
  \A links \in {Links(prompts)} :
    \A ids \in SUBSET IdsOf(prompts) :
      ids # {} => \E a \in ids : \A b \in ids : <<a, b>> \notin links

DistinctIds(prompts) == Cardinality(IdsOf(prompts)) = Len(prompts)

\* each prompt of the list comes after the prompts it requires among those of the list
AfterDependencies(list) ==
  \A i \in DOMAIN list :
    \A depId \in Requires(list[i]) \cap IdsOf(list) :
      \E k \in 1..(i - 1) : list[k].id = depId

\* the tasks A, B requiring A, C requiring B
TaskA == Prompt("A", "all", "architecture", 1, <<>>)
TaskB == Prompt("B", "all", "architecture", 1, <<"A">>)
TaskC == Prompt("C", "all", "architecture", 1, <<"B">>)

\* C17: for every set of tasks with acyclic dependencies, in every order given, the
\* list the resolver returns places each task after all of its declared
\* dependencies that are in the set; A, B (requires A), C (requires B) given in
\* any order yield [A, B, C].
C17_ResolverRespectsDependencies ==
  (engine.method = "resolvePromptDependencies" /\ IsSome(engine.returned)) =>
    LET prompts == engine.args.prompts
        resolved == Val(engine.returned).resolved
    IN /\ (DistinctIds(prompts) /\ Acyclic(prompts)) =>
            /\ AfterDependencies(resolved)
            /\ IdsOf(resolved) = IdsOf(prompts)
       /\ (Len(prompts) = 3 /\ {prompts[i] : i \in DOMAIN prompts} = {TaskA, TaskB, TaskC}) =>
            resolved = <<TaskA, TaskB, TaskC>>

\* the resolver was given C, B, A and has returned A, B, C
C17_Witness ==
  /\ engine.method = "resolvePromptDependencies"
  /\ engine.args.prompts = <<TaskC, TaskB, TaskA>>
  /\ engine.returned = Some([resolved |-> <<TaskA, TaskB, TaskC>>, warned |-> {}])

\* C18: for every dependency graph, cyclic and self-dependent ones included, the
\* resolver returns (it neither raises nor recurses for ever) a list that holds
\* each distinct requested id exactly once, each with the definition last given
\* for it, and nothing that was not requested; a circular dependency is logged,
\* and only then.
C18_ResolverIsTotal ==
  (engine.method = "resolvePromptDependencies" /\ IsSome(engine.returned)) =>
    LET prompts == engine.args.prompts
        resolved == Val(engine.returned).resolved
        warned == Val(engine.returned).warned
    IN /\ IdsOf(resolved) = IdsOf(prompts)
       /\ Len(resolved) = Cardinality(IdsOf(prompts))
       /\ \A i \in DOMAIN resolved : resolved[i] = promptMapOf(prompts)[resolved[i].id]
       /\ warned # {} <=> ~Acyclic(prompts)

\* the resolver was given A requiring B and B requiring A, and has returned both once
C18_Witness ==
  /\ engine.method = "resolvePromptDependencies"
  /\ engine.args.prompts = << Prompt("A", "all", "architecture", 1, <<"B">>),
                              Prompt("B", "all", "architecture", 1, <<"A">>) >>
  /\ IsSome(engine.returned)
  /\ Len(Val(engine.returned).resolved) = 2
  /\ Val(engine.returned).warned # {}

\* the prompt last given for an id in a list that holds the id
LastWithId(prompts, id) ==
  prompts[CHOOSE i \in DOMAIN prompts :
            prompts[i].id = id /\ \A k \in DOMAIN prompts : prompts[k].id = id => k <= i]

\* C19: getPrompts(type, category) returns the default tasks of the category that
\* apply to the type (targetType all or the type) merged with the type-specific
\* tasks of the type and category: each id once, the type-specific definition for
\* an id that has one (whether or not the defaults hold the id), the default
\* definition for the others, in ascending order of the order field.
C19_GetPromptsMerges ==
  (engine.method = "getPrompts" /\ IsSome(engine.returned)) =>
    LET repoType == engine.args.repoType
        category == engine.args.category
        returned == Val(engine.returned)
        defaults == IF category \in DOMAIN catalogue.defaults
                    THEN catalogue.defaults[category] ELSE <<>>
        specific == IF repoType \in DOMAIN catalogue.typeSpecific
                       /\ category \in DOMAIN catalogue.typeSpecific[repoType]
                    THEN catalogue.typeSpecific[repoType][category] ELSE <<>>
        applicable == {i \in DOMAIN defaults : defaults[i].targetType \in {"all", repoType}}
    IN /\ DistinctIds(returned)
       /\ IdsOf(returned) = {defaults[i].id : i \in applicable} \cup IdsOf(specific)
       /\ \A i \in DOMAIN returned :
            IF returned[i].id \in IdsOf(specific)
            THEN returned[i] = LastWithId(specific, returned[i].id)
            ELSE \E k \in applicable : returned[i] = defaults[k]
       /\ \A i \in 1..(Len(returned) - 1) : returned[i].order <= returned[i + 1].order

\* for a backend repository the catalogue redefines arch-overview with order 5 and
\* adds backend-api-design with order 4: getPrompts has returned arch-components,
\* backend-api-design and the redefined arch-overview, without the frontend task
C19_Witness ==
  /\ engine.method = "getPrompts"
  /\ catalogue = OverrideCatalogue
  /\ engine.args = [repoType |-> "backend", category |-> "architecture"]
  /\ IsSome(engine.returned)
  /\ [i \in DOMAIN Val(engine.returned) |-> Val(engine.returned)[i].id] =
       <<"arch-components", "backend-api-design", "arch-overview">>
  /\ Val(engine.returned)[3].targetType = "backend"

\* the variable has no value in the execution context: it is no property of the
\* context and no file that was read is the one, or one of those, it stands for
Missing(name, context) ==
  LET paths == {context.fileContents.entries[i].key : i \in DOMAIN context.fileContents.entries}
  IN /\ name \notin DOMAIN context
     /\ CASE name = "readme" -> paths \cap {"README.md", "readme.md"} = {}
          [] name = "apiSpec" ->
               paths \cap {"openapi.yaml", "openapi.json", "swagger.yaml", "swagger.json",
                           "api.yaml", "api.json"} = {}
          [] name \in FileGroups -> \A path \in paths : name \notin GroupsOf(path)
          [] name = "sourceFiles" -> paths = {}
          [] OTHER -> TRUE

\* C20 (as stated): renderPrompt returns (it does not raise) a content that is not
\* empty, and every declared placeholder whose variable has no value in the
\* execution context is rendered as the marker [Not available], never as an empty
\* string, for every variable of the catalogue (readme, apiSpec and the file-group
\* variables included).
C20_RenderMarksMissing ==
  (engine.method = "renderPrompt" /\ IsSome(engine.returned)) =>
    LET rendered == Val(engine.returned)
        variables == VariablesOf(engine.args.promptId)
    IN /\ rendered.content # <<>>
       /\ \A i \in DOMAIN rendered.pieces :
            ( /\ rendered.pieces[i].piece = "rendered"
              /\ \E k \in DOMAIN variables : variables[k].name = rendered.pieces[i].name
              /\ Missing(rendered.pieces[i].name, engine.args.context) )
            => rendered.pieces[i].text = <<"[Not available]">>

\* the references to the output of another task in the template of a task
References(promptId) ==
  {i \in DOMAIN TemplateOf(promptId) : TemplateOf(promptId)[i].piece = "previous"}

\* C21: in the text renderPrompt returns, every reference to the output of a task
\* X is replaced by the output of X when the dependency chain holds it and by
\* '[No previous context for X]' when it does not; no reference stays in the text
\* and the render returns.
C21_ReferencesAreResolved ==
  (engine.method = "renderPrompt" /\ IsSome(engine.returned)) =>
    LET rendered == Val(engine.returned)
        chain == engine.args.context.previousContext
        template == TemplateOf(engine.args.promptId)
    IN /\ \A i \in DOMAIN rendered.pieces : rendered.pieces[i].piece # "previous"
       /\ \A i \in References(engine.args.promptId) :
            rendered.pieces[i].text =
              IF template[i].name \in DOMAIN chain
              THEN <<chain[template[i].name]>>
              ELSE <<"[No previous context for ", template[i].name, "]">>

\* arch-dependencies was rendered with the output of arch-overview in the chain and
\* without that of arch-components, which it refers to
C21_Witness ==
  /\ engine.method = "renderPrompt"
  /\ engine.args.promptId = "arch-dependencies"
  /\ DOMAIN engine.args.context.previousContext = {"arch-overview"}
  /\ IsSome(engine.returned)
  /\ \E i \in References("arch-dependencies") :
       Val(engine.returned).pieces[i].text =
         <<"[No previous context for ", "arch-components", "]">>

\* the call of detect has returned, and what it returned
Detected == engine.method = "detect" /\ IsSome(engine.returned)
Detection == Val(engine.returned)

\* C22: whatever the indicators, the normalised score of each type lies in [0,1];
\* when an indicator fires the primary type is a type other than unknown, and when
\* none fires it is unknown with confidence 0; detect returns a result also when
\* package.json is missing, unreadable or does not parse, and then no indicator
\* comes from its content.
C22_ScoresAreNormalised ==
  Detected =>
    LET scores == Detection.typeScores
        manifest == engine.args.localPath.files
    IN /\ scores.max > 0
       /\ \A t \in RepositoryType : 0 <= scores.sums[t] /\ scores.sums[t] <= scores.max
       /\ Detection.allIndicators # <<>> =>
            /\ Detection.primaryType \in RepositoryType \ {"unknown"}
            /\ scores.sums[Detection.primaryType] > 0
       /\ Detection.allIndicators = <<>> =>
            Detection.primaryType = "unknown" /\ Detection.confidence.num = 0
       /\ ("package.json" \notin DOMAIN manifest
              \/ manifest["package.json"] \in {Unreadable, Malformed}) =>
            \A i \in DOMAIN Detection.allIndicators :
              Detection.allIndicators[i].type \in {"file", "structure"}
                \/ Detection.allIndicators[i].name = "gin"

\* a checkout whose package.json does not parse has been classified, by the files
\* it holds
C22_Witness ==
  /\ Detected
  /\ "package.json" \in DOMAIN engine.args.localPath.files
  /\ engine.args.localPath.files["package.json"] = Malformed
  /\ Detection.primaryType = "mobile"
  /\ Detection.typeScores.sums["backend"] > 0

\* the types whose normalised score is within 0.1 of the highest one
NearTop(scores) ==
  {t \in RepositoryType : scores.sums[t] > 0 /\ (scores.max - scores.sums[t]) * 10 < scores.max}

\* C23: whatever the scores, the primary type is the type of highest static
\* priority among the types whose normalised score is within 0.1 of the highest
\* normalised score (the type of the highest score when no other is that close),
\* a rule that gives one answer whatever the order of the comparisons.
C23_PrimaryIsTopByPriority ==
  (Detected /\ Detection.allIndicators # <<>>) =>
    LET near == NearTop(Detection.typeScores) IN
    /\ Detection.primaryType \in near
    /\ \A t \in near : TYPE_PRIORITY[t] <= TYPE_PRIORITY[Detection.primaryType]

\* C24: the confidence reported is the highest normalised score among the
\* competing types, also when the primary type won by the priority tie-break, and
\* it is 0 exactly when the primary type is unknown.
C24_ConfidenceIsTopScore ==
  Detected =>
    LET scores == Detection.typeScores
        top == Max({scores.sums[t] : t \in RepositoryType})
    IN /\ (Detection.confidence.num = 0) <=> (Detection.primaryType = "unknown")
       /\ Detection.primaryType # "unknown" =>
            Detection.confidence.num * scores.max = top * Detection.confidence.den

\* the checkout whose only file is main.tf
OnlyMainTf == Dir(Named(<<<<"main.tf", PlainFile>>>>), <<>>)

\* C25: a checkout whose only file is main.tf, with no manifest and no directory,
\* is classified infra-as-code with confidence 1 (the single score normalises to
\* 1), above the threshold of 0.3 the indicators are filtered by.
C25_MainTfIsInfra ==
  (Detected /\ engine.args.localPath = OnlyMainTf) =>
    /\ Detection.primaryType = "infra-as-code"
    /\ Detection.confidence.num = Detection.confidence.den
    /\ Detection.confidence.num * 100 > 30 * Detection.confidence.den
    /\ Detection.indicators = <<Indicator("file", "main.tf", 70, "infra-as-code")>>

\* the checkout whose only file is main.tf has been classified
C25_Witness ==
  /\ Detected
  /\ engine.args.localPath = OnlyMainTf
  /\ Detection.primaryType = "infra-as-code"

\* the checkout has top-level directories ios and android and a package.json that
\* parses and names react-native
ReactNativeCheckout(tree) ==
  /\ {"ios", "android"} \subseteq DOMAIN tree.dirs
  /\ IsSome(readPackageJson(tree))
  /\ "react-native" \in Val(readPackageJson(tree)).deps

ManifestDependencies(tree) ==
  (IF IsSome(readPackageJson(tree)) THEN Val(readPackageJson(tree)).deps ELSE {})
    \cup textDeps(tree, "requirements.txt") \cup textDeps(tree, "go.mod")
    \cup textDeps(tree, "cargo.toml")

\* C27: a technology is in the detected stack if and only if one of its file-name
\* or extension patterns matches a file of the checkout or one of its
\* dependency-name patterns is a dependency that a manifest names, whatever the
\* primary type, the scores and the other technologies: react-native alone does
\* not bring in react, and gin named in go.mod brings in gin.
C27_StackIsPatternMatch ==
  Detected =>
    LET tree == engine.args.localPath
        files == getFiles(tree)
    IN \A tech \in TechStack :
         tech \in Detection.techStack <=>
           \/ TECH_STACK_PATTERNS[tech].extensions \cap {f.extension : f \in files} # {}
           \/ TECH_STACK_PATTERNS[tech].names \cap {f.name : f \in files} # {}
           \/ TECH_STACK_PATTERNS[tech].dependencies \cap ManifestDependencies(tree) # {}

\* the type each package of the model is of
TypeOfPackage(package) ==
  CASE package = WebPackage -> "frontend"
    [] package = ServicePackage -> "backend"
    [] package = InfraPackage -> "infra-as-code"
    [] package = NestedMonorepo -> "monorepo"
    [] OTHER -> "unknown"

\* the subdirectories of packages/, apps/, libs/ and modules/
PackagesOf(tree) ==
  UNION { {tree.dirs[d].dirs[n] : n \in DOMAIN tree.dirs[d].dirs} :
          d \in DOMAIN tree.dirs \cap {"packages", "apps", "libs", "modules"} }

\* C28: when the primary type is monorepo, subTypes is the set of the primary
\* types of the subdirectories of packages/, apps/, libs/ and modules/, without
\* monorepo and unknown; for any other primary type there is no subTypes; the
\* classification of a package that is a monorepo itself returns.
C28_SubTypesOfMonorepo ==
  Detected =>
    IF Detection.primaryType = "monorepo"
    THEN Detection.subTypes =
           Some({TypeOfPackage(p) : p \in PackagesOf(engine.args.localPath)}
                  \ {"monorepo", "unknown"})
    ELSE Detection.subTypes = Null

\* a monorepo whose packages are two web applications, a service and a monorepo
\* has been classified
C28_Witness ==
  /\ Detected
  /\ Detection.primaryType = "monorepo"
  /\ {WebPackage, ServicePackage, NestedMonorepo} \subseteq PackagesOf(engine.args.localPath)
  /\ "p2" \in DOMAIN engine.args.localPath.dirs["packages"].dirs
  /\ engine.args.localPath.dirs["packages"].dirs["p1"] = WebPackage
  /\ engine.args.localPath.dirs["packages"].dirs["p2"] = WebPackage
  /\ Detection.subTypes = Some({"frontend", "backend"})

\* the jobs of the batch that have been started and are in no terminal status
RunningJobs ==
  { j \in DOMAIN job : job[j].pc # "idle" /\ job[j].pc # "rejected"
                       /\ job[j].analysis.status \notin Terminal }

\* the largest number of concurrent jobs the repository documents (the tiers
\* allow 1, 3 and 5 concurrent analyses)
MaxConcurrentJobs == 5

\* C29: the jobs of a batch request that are running at the same time are never
\* more than a fixed window size: a job of the next window is started only after
\* the jobs of the current window have finished
C29_BatchRunsInWindows ==
  engine.method = "analyzeBatch" => Cardinality(RunningJobs) <= MaxConcurrentJobs

\* the caller has asked for job 1 to be dropped while it was running
CancelRequested ==
  /\ engine.method = "deleteAnalysis"
  /\ job[1].pc \notin {"idle", "rejected", "done"}
  /\ job[1].analysis.status \notin Terminal

\* C30: once a caller has marked a running job as cancelled, the job dispatches
\* no further task and enters no further stage: a step of the job (the end of
\* the external call in flight) leaves the number of dispatched tasks as it is
\* and the status as it is, or ends the job.
C30_CancelledJobStops ==
  [][CancelRequested =>
       /\ Len(job'[1].calls) = Len(job[1].calls)
       /\ job'[1].analysis.status \in
            {job[1].analysis.status, "cancelled"} \cup Terminal]_vars

\* C39: whenever cloneRepository has returned failure, the timeout included, no
\* directory of that clone is under the temp directory.
C39_FailedCloneLeavesNothing ==
  \A j \in Jobs :
    (job[j].io.clones = 1 /\ job[j].io.clone \in {"error", "timeout"}) => j \notin tempDir

\* what of a job only its own pipeline may change
OwnState(s) ==
  [status |-> s.analysis.status, progress |-> s.analysis.progress,
   usage |-> s.analysis.usage, previousContext |-> s.previousContext]

\* C31: with several jobs running side by side, getAnalysis gives, for an id
\* startAnalysis has returned, the Analysis of that job, now and after every later
\* step, and nothing for an id never returned; a step in which one job moves
\* leaves the status, progress, usage counters and dependency chain of every
\* other job as they are.
C31_JobsAreIsolated ==
  [][\A j \in Jobs :
       /\ job[j].returned # Null <=> getAnalysis(j) # Null
       /\ getAnalysis(j) # Null =>
            /\ Val(getAnalysis(j)) = job[j].analysis
            /\ j \in DOMAIN activeAnalyses'
       /\ \A i \in Jobs \ {j} :
            job'[i] # job[i] => OwnState(job'[j]) = OwnState(job[j])]_vars

\* two jobs are in the middle of their task lists, each with its own dependency
\* chain and its own count of calls, and both can be retrieved
C31_Witness ==
  /\ \A j \in {1, 2} : job[j].pc = "agent_call" /\ getAnalysis(j) # Null
  /\ job[1].previousContext # <<>>
  /\ job[2].previousContext = <<>>
  /\ job[1].analysis.usage.agentsUsed = 1
  /\ job[2].analysis.usage.agentsUsed = 0

\* C32: when every external call is answered in the end, a job that has been
\* started reaches completed or failed.
C32_JobsEnd ==
  (job[1].analysis.status \notin {"none"} \cup Terminal)
    ~> (job[1].analysis.status \in Terminal)

\* a job whose clone timed out has ended as failed, and its notification too
C32_Witness ==
  /\ job[1].pc = "done"
  /\ job[1].io.clone = "timeout"
  /\ job[1].analysis.status = "failed"
  /\ Len(job[1].webhooks) = 1

\* a stored progress value (kept in units of 1/ProgressScale) that is an integer
\* between 0 and 100
IsPercentage(p) == p % ProgressScale = 0 /\ 0 <= p /\ p <= Pct(100)

\* C33: the progress stored on the job, and the progress of every event emitted
\* for it, is an integer between 0 and 100.
C33_ProgressIsInteger ==
  \A j \in Jobs :
    /\ IsPercentage(job[j].analysis.progress)
    /\ \A k \in DOMAIN job[j].emitted : IsPercentage(job[j].emitted[k].progress)

\* the calls of the reasoning service that have returned for a job
ReturnedCalls(s) == Len(s.calls) - (IF s.pc = "agent_call" THEN 1 ELSE 0)

RECURSIVE SumTokens(_)
SumTokens(results) ==
  IF results = <<>> THEN 0 ELSE Head(results).tokensUsed + SumTokens(Tail(results))

UsageIsExact(s) ==
  /\ s.analysis.usage.agentsUsed = ReturnedCalls(s)
  /\ Len(s.results) = ReturnedCalls(s)
  /\ s.analysis.usage.tokensConsumed = SumTokens(s.results)
  /\ \A i \in DOMAIN s.results : ~s.results[i].success => s.results[i].tokensUsed = 0

\* C34: at every point of a job agentsUsed is the number of calls of the
\* reasoning service that have returned, successful or failed, tokensConsumed is
\* the sum of the tokensUsed of their results, a failed call counts 0 tokens, and
\* no step lowers either counter.
C34_UsageCountsCalls ==
  [][\A j \in Jobs :
       /\ UsageIsExact(job[j]) /\ UsageIsExact(job'[j])
       /\ job'[j].analysis.usage.agentsUsed >= job[j].analysis.usage.agentsUsed
       /\ job'[j].analysis.usage.tokensConsumed >= job[j].analysis.usage.tokensConsumed]_vars

\* a job has had a failed call and, after it, a successful call that reported
\* tokens
C34_Witness ==
  \E j \in Jobs :
    /\ job[j].analysis.usage.agentsUsed = 2
    /\ ~job[j].results[1].success
    /\ job[j].results[2].success
    /\ job[j].analysis.usage.tokensConsumed = job[j].results[2].tokensUsed
    /\ job[j].analysis.usage.tokensConsumed > 0

\* the categories of the calls of a job follow the fixed order
CallsInCategoryOrder(s) ==
  \A a, b \in DOMAIN s.calls :
    a < b => CategoryIndex(s.calls[a].category) <= CategoryIndex(s.calls[b].category)

\* the categories a job has dispatched tasks of
CalledCategories(s) == {s.calls[k].category : k \in DOMAIN s.calls}

\* what the flag decides about the tasks of a job: with the scan declined no
\* security task is dispatched and a job that has gone through its tasks has
\* called the five other categories, in the fixed order; with the scan asked for
\* or not mentioned it has called all six, security right after architecture
FlagDecidesTasks(s) ==
  /\ CallsInCategoryOrder(s)
  /\ s.request.includeSecurityScan = Some(FALSE) => "security" \notin CalledCategories(s)
  /\ InLog(s, "synthesizing") =>
       CalledCategories(s) =
         {categories[i] : i \in DOMAIN categories}
           \ (IF s.request.includeSecurityScan = Some(FALSE) THEN {"security"} ELSE {})

\* C35 as stated: the flag decides the tasks, and the final result of a job that
\* declined the scan has no securityFindings.
C35_ScanOffMeansNoFindings ==
  \A j \in Jobs :
    /\ FlagDecidesTasks(job[j])
    /\ (job[j].request.includeSecurityScan = Some(FALSE) /\ IsSome(job[j].analysis.result))
         => Val(job[j].analysis.result).securityFindings = Null

\* C35, amended: the flag decides the tasks, and the result a job that declined
\* the scan has synthesized itself has no securityFindings; a result served from
\* the cache is the stored one, with the securityFindings of the run that stored it.
C35_ScanOffMeansNoFindingsOfOwnRun ==
  \A j \in Jobs :
    /\ FlagDecidesTasks(job[j])
    /\ (job[j].request.includeSecurityScan = Some(FALSE) /\ IsSome(job[j].analysis.result))
         => IF job[j].analysis.usage.cacheHit
            THEN job[j].analysis.result = Some(job[j].io.recalled[1].content.result)
            ELSE Val(job[j].analysis.result).securityFindings = Null
    /\ (job[j].request.includeSecurityScan # Some(FALSE) /\ IsSome(job[j].analysis.result)
        /\ ~job[j].analysis.usage.cacheHit)
         => Val(job[j].analysis.result).securityFindings # Null

\* a job that declined the scan has completed its own run with the five other
\* categories called and a result without securityFindings
C35_Witness ==
  /\ job[1].analysis.status = "completed"
  /\ ~job[1].analysis.usage.cacheHit
  /\ job[1].request.includeSecurityScan = Some(FALSE)
  /\ Cardinality(CalledCategories(job[1])) = 5
  /\ Val(job[1].analysis.result).securityFindings = Null


\* the three status-dependent fields of a job agree with its status
FieldsFitStatus(a) ==
  /\ a.status = "completed" => (IsSome(a.result) /\ a.progress = Pct(100))
  /\ a.status = "failed" => (IsSome(a.errorMessage) /\ a.result = Null)
  /\ a.status \notin Terminal => (a.result = Null /\ a.errorMessage = Null)

\* C36: in every reachable state of a job, status completed implies that the
\* result is present and progress is 100, status failed implies that
\* errorMessage is set and the result absent, and every non-terminal status
\* implies that result and errorMessage are both absent.
C36_FieldsFitStatus == \A j \in Jobs : FieldsFitStatus(job[j].analysis)

\* a job has failed while it was writing the report: the result it had synthesized
\* is not the result of the job, which holds the error message only
C36_Witness ==
  \E j \in Jobs :
    /\ job[j].analysis.status = "failed"
    /\ job[j].analysis.progress = Pct(90)
    /\ IsSome(job[j].synthesizedResult)
    /\ job[j].analysis.result = Null
    /\ IsSome(job[j].analysis.errorMessage)

\* a depends on b, directly or transitively: b is in every set of ids that holds
\* what a requires and what its members require
DependsOn(links, ids, a, b) ==
  \A reached \in SUBSET ids :
    ( /\ \A c \in ids : <<a, c>> \in links => c \in reached
      /\ \A c \in reached : \A d \in ids : <<c, d>> \in links => d \in reached )
    => b \in reached

\* the place of an id in a list that holds it
PlaceOf(list, id) == CHOOSE i \in DOMAIN list : list[i].id = id

\* C37: in a dependency graph that contains cycles, the resolver still places
\* task Y before task X whenever X declares Y as a dependency and Y does not
\* depend, directly or transitively, on X: only a link that closes a cycle is
\* ignored, never a link outside a cycle.
C37_OnlyCycleLinksIgnored ==
  (engine.method = "resolvePromptDependencies" /\ IsSome(engine.returned)) =>
    LET prompts == engine.args.prompts
        resolved == Val(engine.returned).resolved
        links == Links(prompts)
        ids == IdsOf(prompts)
    IN \A x \in ids : \A y \in ids :
         (<<x, y>> \in links /\ ~DependsOn(links, ids, y, x)) =>
           PlaceOf(resolved, y) < PlaceOf(resolved, x)

\* the resolver was given C requiring B, then A and B requiring each other, and
\* has returned C after B, the link from C being outside the cycle
C37_Witness ==
  /\ engine.method = "resolvePromptDependencies"
  /\ engine.args.prompts = << Prompt("C", "all", "architecture", 1, <<"B">>),
                              Prompt("A", "all", "architecture", 1, <<"B">>),
                              Prompt("B", "all", "architecture", 1, <<"A">>) >>
  /\ IsSome(engine.returned)
  /\ Val(engine.returned).warned # {}
  /\ PlaceOf(Val(engine.returned).resolved, "B") < PlaceOf(Val(engine.returned).resolved, "C")


\* job j has just been answered by CacheService.get
GetAnswered(j) == job[j].pc = "cache_get" /\ job'[j].pc # "cache_get"

\* job j has just had its result stored by CacheService.set
SetStored(j) == job[j].pc = "cache_set" /\ job'[j].pc # "cache_set" /\ job'[j].io.stored

\* C38: CacheService.get never returns an entry whose expiresAt is not later than
\* the current time: an expired entry is reported as a miss and its deletion is
\* requested, and an entry written by set expires 7 days after it was written.
C38_ExpiredEntryIsAMiss ==
  [][\A j \in Jobs :
       /\ GetAnswered(j) =>
            LET memories == job'[j].io.recalled
                served == job'[j].analysis.usage.cacheHit
            IN /\ served =>
                    /\ memories # <<>>
                    /\ memories[1].content.expiresAt > clock
                    /\ job'[j].analysis.result = Some(memories[1].content.result)
               /\ (memories # <<>> /\ memories[1].content.expiresAt <= clock) =>
                    /\ ~served
                    /\ \A m \in store' : m.id # memories[1].id
       /\ SetStored(j) =>
            \E m \in store' :
              /\ m.id = j
              /\ m.content.createdAt = clock
              /\ m.content.expiresAt = clock + 7
              /\ m.content.result = job[j].analysis.result[1]
    ]_vars

\* a job was handed, at the instant it expired, the entry stored 7 days before,
\* went on to analyse the repository, and has stored its own entry in its place
C38_Witness ==
  \E j \in Jobs :
    /\ job[j].io.recalled # <<>>
    /\ job[j].io.recalled[1].content.expiresAt = job[j].io.readAt
    /\ job[j].io.recalled[1].content.createdAt + 7 = job[j].io.readAt
    /\ ~job[j].analysis.usage.cacheHit
    /\ job[j].io.stored
    /\ \A m \in store : m.id = j /\ m.content.expiresAt = clock + 7

\* the text a declared variable stands for in a context, as formatValue gives it
InsertedText(variable, context) ==
  formatValue(resolveVariable(variable.name, context), variable.type)

\* C40: in renderPrompt the text inserted for a declared variable (file contents,
\* configuration files, directory listing) is never itself interpreted as a
\* placeholder: each placeholder of the template becomes the formatted value of
\* its variable as it is, so that contexts that differ only in the content of a
\* file give texts that differ only in that content, and a file that holds the
\* text {{previousContext.X}} does not bring in the output of task X.
C40_InsertedTextIsNotInterpreted ==
  (engine.method = "renderPrompt" /\ IsSome(engine.returned)) =>
    LET rendered == Val(engine.returned)
        template == TemplateOf(engine.args.promptId)
        variables == VariablesOf(engine.args.promptId)
    IN \A i \in DOMAIN template :
         \A k \in DOMAIN variables :
           (template[i].piece = "variable" /\ template[i].name = variables[k].name) =>
             rendered.pieces[i].text = InsertedText(variables[k], engine.args.context)

\* the same, for the files that hold no text of a placeholder or of a reference
C40_PlainTextIsInsertedAsIs ==
  ( /\ engine.method = "renderPrompt" /\ IsSome(engine.returned)
    /\ \A i \in DOMAIN engine.args.context.fileContents.entries :
         engine.args.context.fileContents.entries[i].value = "content" ) =>
    LET rendered == Val(engine.returned)
        template == TemplateOf(engine.args.promptId)
        variables == VariablesOf(engine.args.promptId)
    IN \A i \in DOMAIN template :
         \A k \in DOMAIN variables :
           (template[i].piece = "variable" /\ template[i].name = variables[k].name) =>
             rendered.pieces[i].text = InsertedText(variables[k], engine.args.context)

====
